---- MODULE Spec2Model ----
(***************************************************************************)
(* Loan dashboard: CSV ingestion (header resolution, row normalization,    *)
(* progress reporting, batched upsert) and the uploader's timeout race.    *)
(*                                                                         *)
(* Text is a sequence of one-character strings.  A JavaScript value is a   *)
(* record [t, s, n]: t is the type tag, s the text of a string, n the      *)
(* number (in thousandths) or the truth value of a boolean (1 / 0).        *)
(***************************************************************************)
EXTENDS Integers, Sequences, FiniteSets, TLC

VARIABLES
    \* --- header resolver, one call of findStandardFieldName
    hdrField,       \* canonical field under which the spelling is listed
    hdrText,        \* the header cell handed to findStandardFieldName
    hdrResult,      \* what it returned; "pending" before the call
    \* --- the synchronous part of parseCSV, one call
    parseFile,      \* the file read
    parseTz,        \* the browser's time zone
    parseOut,       \* the outcome; [settled |-> "pending"] before the call
    \* --- the pipeline
    user,           \* who uploads: time zone, files at hand, uploads attempted
    calls,          \* number of processFile calls made so far
    ing,            \* per call: the state of processFile and of its parseCSV call
    ui,             \* the uploader's component state
    requests,       \* every request sent to the store, in the order of issue
    store,          \* the store's tables
    \* --- the dashboard
    data,           \* the loan collection handed to Dashboard
    dashboard,      \* what calculateAllMetrics set; [state |-> "none"] before
    expiredLoans    \* what UpcomingLoans computed; [state |-> "none"] before

hdrVars == <<hdrField, hdrText, hdrResult>>

parseVars == <<parseFile, parseTz, parseOut>>

pipeVars == <<user, calls, ing, ui, requests, store>>

calcVars == <<data, dashboard, expiredLoans>>

(***************************************************************************)
(* Text helpers (String.prototype.toLowerCase / trim / replace).           *)
(***************************************************************************)
Letters == {"a","b","c","d","e","f","g","h","i","j","k","l","m",
            "n","o","p","q","r","s","t","u","v","w","x","y","z"}

UpperLetters == {"A","B","C","D","E","F","G","H","I","J","K","L","M",
                 "N","O","P","Q","R","S","T","U","V","W","X","Y","Z"}

Digits == {"0","1","2","3","4","5","6","7","8","9"}

LowerOf ==
    ("A" :> "a") @@ ("B" :> "b") @@ ("C" :> "c") @@ ("D" :> "d") @@ ("E" :> "e") @@
    ("F" :> "f") @@ ("G" :> "g") @@ ("H" :> "h") @@ ("I" :> "i") @@ ("J" :> "j") @@
    ("K" :> "k") @@ ("L" :> "l") @@ ("M" :> "m") @@ ("N" :> "n") @@ ("O" :> "o") @@
    ("P" :> "p") @@ ("Q" :> "q") @@ ("R" :> "r") @@ ("S" :> "s") @@ ("T" :> "t") @@
    ("U" :> "u") @@ ("V" :> "v") @@ ("W" :> "w") @@ ("X" :> "x") @@ ("Y" :> "y") @@
    ("Z" :> "z")

IsSpace(c) == c \in {" ", "\t"}

toLowerCase(s) ==
    [i \in 1..Len(s) |-> IF s[i] \in UpperLetters THEN LowerOf[s[i]] ELSE s[i]]

trim(s) ==
    LET keep == {i \in 1..Len(s) : ~IsSpace(s[i])}
        lo == CHOOSE i \in keep : \A j \in keep : i <= j
        hi == CHOOSE i \in keep : \A j \in keep : i >= j
    IN  IF keep = {} THEN <<>> ELSE SubSeq(s, lo, hi)

\* /[\s_-]+/g -> '_' : every maximal run of separators becomes one underscore
IsSeparator(c) == IsSpace(c) \/ c \in {"_", "-"}

ReplaceSeparatorRuns(s) ==
    LET mark == [i \in 1..Len(s) |->
                    IF ~IsSeparator(s[i]) THEN s[i]
                    ELSE IF i > 1 /\ IsSeparator(s[i-1]) THEN "" ELSE "_"]
    IN  SelectSeq(mark, LAMBDA c : c # "")

\* /[^\w]/g -> '' : \w is [A-Za-z0-9_]
IsWordChar(c) == c \in Letters \cup UpperLetters \cup Digits \cup {"_"}

RemoveNonWord(s) == SelectSeq(s, IsWordChar)

(***************************************************************************)
(* Header resolver.                                                        *)
(***************************************************************************)
COLUMN_MAPPINGS ==
  [ user_wallet |-> <<
        <<"u","s","e","r","_","w","a","l","l","e","t">>,   \* user_wallet
        <<"w","a","l","l","e","t">>,   \* wallet
        <<"u","s","e","r"," ","w","a","l","l","e","t">>,   \* user wallet
        <<"a","d","d","r","e","s","s">>,   \* address
        <<"w","a","l","l","e","t","_","a","d","d","r","e","s","s">>,   \* wallet_address
        <<"u","s","e","r","_","a","d","d","r","e","s","s">>,   \* user_address
        <<"w","a","l","l","e","t"," ","a","d","d","r","e","s","s">>    \* wallet address
      >>,
    loan_amount |-> <<
        <<"l","o","a","n","_","a","m","o","u","n","t">>,   \* loan_amount
        <<"a","m","o","u","n","t">>,   \* amount
        <<"l","o","a","n"," ","a","m","o","u","n","t">>,   \* loan amount
        <<"p","r","i","n","c","i","p","a","l">>,   \* principal
        <<"l","o","a","n","_","p","r","i","n","c","i","p","a","l">>,   \* loan_principal
        <<"l","o","a","n"," ","p","r","i","n","c","i","p","a","l">>,   \* loan principal
        <<"v","a","l","u","e">>    \* value
      >>,
    loan_term |-> <<
        <<"l","o","a","n","_","t","e","r","m">>,   \* loan_term
        <<"t","e","r","m">>,   \* term
        <<"d","u","r","a","t","i","o","n">>,   \* duration
        <<"p","e","r","i","o","d">>,   \* period
        <<"l","o","a","n","_","d","u","r","a","t","i","o","n">>,   \* loan_duration
        <<"l","o","a","n"," ","d","u","r","a","t","i","o","n">>,   \* loan duration
        <<"d","a","y","s">>,   \* days
        <<"l","o","a","n","_","d","a","y","s">>    \* loan_days
      >>,
    loan_due_date |-> <<
        <<"l","o","a","n","_","d","u","e","_","d","a","t","e">>,   \* loan_due_date
        <<"d","u","e","_","d","a","t","e">>,   \* due_date
        <<"d","u","e"," ","d","a","t","e">>,   \* due date
        <<"m","a","t","u","r","i","t","y","_","d","a","t","e">>,   \* maturity_date
        <<"m","a","t","u","r","i","t","y"," ","d","a","t","e">>,   \* maturity date
        <<"e","x","p","i","r","y","_","d","a","t","e">>,   \* expiry_date
        <<"e","x","p","i","r","y"," ","d","a","t","e">>    \* expiry date
      >>,
    loan_repaid_amount |-> <<
        <<"l","o","a","n","_","r","e","p","a","i","d","_","a","m","o","u","n","t">>,   \* loan_repaid_amount
        <<"r","e","p","a","i","d","_","a","m","o","u","n","t">>,   \* repaid_amount
        <<"r","e","p","a","i","d"," ","a","m","o","u","n","t">>,   \* repaid amount
        <<"p","a","i","d","_","a","m","o","u","n","t">>,   \* paid_amount
        <<"p","a","i","d"," ","a","m","o","u","n","t">>,   \* paid amount
        <<"r","e","p","a","y","m","e","n","t">>,   \* repayment
        <<"p","a","i","d">>    \* paid
      >>,
    time_loan_started |-> <<
        <<"t","i","m","e","_","l","o","a","n","_","s","t","a","r","t","e","d">>,   \* time_loan_started
        <<"d","a","t","e","_","l","o","a","n","_","s","t","a","r","t","e","d">>,   \* date_loan_started
        <<"l","o","a","n","_","s","t","a","r","t","e","d">>,   \* loan_started
        <<"s","t","a","r","t","_","d","a","t","e">>,   \* start_date
        <<"s","t","a","r","t","e","d">>,   \* started
        <<"i","n","c","e","p","t","i","o","n","_","d","a","t","e">>,   \* inception_date
        <<"i","n","c","e","p","t","i","o","n">>,   \* inception
        <<"o","r","i","g","i","n","a","t","i","o","n","_","d","a","t","e">>    \* origination_date
      >>,
    time_loan_ended |-> <<
        <<"t","i","m","e","_","l","o","a","n","_","e","n","d","e","d">>,   \* time_loan_ended
        <<"d","a","t","e","_","l","o","a","n","_","e","n","d","e","d">>,   \* date_loan_ended
        <<"l","o","a","n","_","e","n","d","e","d">>,   \* loan_ended
        <<"e","n","d","_","d","a","t","e">>,   \* end_date
        <<"e","n","d","e","d">>,   \* ended
        <<"t","e","r","m","i","n","a","t","i","o","n","_","d","a","t","e">>,   \* termination_date
        <<"r","e","p","a","y","m","e","n","t","_","d","a","t","e">>,   \* repayment_date
        <<"c","o","m","p","l","e","t","i","o","n","_","d","a","t","e">>    \* completion_date
      >>,
    default_loan_date |-> <<
        <<"d","e","f","a","u","l","t","_","l","o","a","n","_","d","a","t","e">>,   \* default_loan_date
        <<"d","a","t","e","_","l","o","a","n","_","d","e","f","a","u","l","t","e","d">>,   \* date_loan_defaulted
        <<"d","e","f","a","u","l","t","e","d","_","d","a","t","e">>,   \* defaulted_date
        <<"d","e","f","a","u","l","t","_","d","a","t","e">>,   \* default_date
        <<"l","o","a","n","_","d","e","f","a","u","l","t","e","d">>,   \* loan_defaulted
        <<"d","e","f","a","u","l","t","e","d"," ","a","t">>,   \* defaulted at
        <<"d","e","f","a","u","l","t","_","t","i","m","e">>    \* default_time
      >>,
    is_defaulted |-> <<
        <<"i","s","_","d","e","f","a","u","l","t","e","d">>,   \* is_defaulted
        <<"d","e","f","a","u","l","t","e","d">>,   \* defaulted
        <<"i","s"," ","d","e","f","a","u","l","t","e","d">>,   \* is defaulted
        <<"d","e","f","a","u","l","t">>,   \* default
        <<"l","o","a","n","_","d","e","f","a","u","l","t","e","d">>,   \* loan_defaulted
        <<"h","a","s","_","d","e","f","a","u","l","t","e","d">>,   \* has_defaulted
        <<"i","n","_","d","e","f","a","u","l","t">>    \* in_default
      >>,
    version |-> <<
        <<"v","e","r","s","i","o","n">>,   \* version
        <<"v","e","r">>,   \* ver
        <<"l","o","a","n","_","v","e","r","s","i","o","n">>,   \* loan_version
        <<"l","o","a","n"," ","v","e","r","s","i","o","n">>,   \* loan version
        <<"v">>    \* v
      >> ]

\* Object.entries(COLUMN_MAPPINGS) visits the keys in insertion order
FieldOrder ==
    << "user_wallet", "loan_amount", "loan_term", "loan_due_date",
       "loan_repaid_amount", "time_loan_started", "time_loan_ended",
       "default_loan_date", "is_defaulted", "version" >>

NoField == "null"

normalizeHeaderName(header) ==
    RemoveNonWord(ReplaceSeparatorRuns(trim(toLowerCase(header))))

\* variations.map(v => normalizeHeaderName(v)), the same for every call
normalizedVariations ==
    [standardField \in DOMAIN COLUMN_MAPPINGS |->
        {normalizeHeaderName(COLUMN_MAPPINGS[standardField][k]) :
            k \in 1..Len(COLUMN_MAPPINGS[standardField])}]

VariationMatches(standardField, normalizedHeader) ==
    normalizedHeader \in normalizedVariations[standardField]

findStandardFieldName(header) ==
    LET normalizedHeader == normalizeHeaderName(header)
        hits == {i \in 1..Len(FieldOrder) :
                    VariationMatches(FieldOrder[i], normalizedHeader)}
    IN  IF hits = {} THEN NoField
        ELSE FieldOrder[CHOOSE i \in hits : \A j \in hits : i <= j]

(***************************************************************************)
(* JavaScript values.                                                      *)
(***************************************************************************)
Str(s)    == [t |-> "string",    s |-> s,    n |-> 0]
Num(n)    == [t |-> "number",    s |-> <<>>, n |-> n]
Bool(b)   == [t |-> "boolean",   s |-> <<>>, n |-> IF b THEN 1 ELSE 0]
NaN       == [t |-> "NaN",       s |-> <<>>, n |-> 0]
Null      == [t |-> "null",      s |-> <<>>, n |-> 0]
Undefined == [t |-> "undefined", s |-> <<>>, n |-> 0]

\* ToBoolean: "" , 0, NaN, null, undefined and false are falsy
Truthy(v) ==
    CASE v.t = "string"  -> v.s # <<>>
      [] v.t = "number"  -> v.n # 0
      [] v.t = "boolean" -> v.n = 1
      [] OTHER           -> FALSE

DigitValue ==
    ("0" :> 0) @@ ("1" :> 1) @@ ("2" :> 2) @@ ("3" :> 3) @@ ("4" :> 4) @@
    ("5" :> 5) @@ ("6" :> 6) @@ ("7" :> 7) @@ ("8" :> 8) @@ ("9" :> 9)

\* the longest prefix of s made of decimal digits
DigitPrefix(s) ==
    LET stop == CHOOSE i \in 1..(Len(s) + 1) :
                    /\ \A j \in 1..(i - 1) : s[j] \in Digits
                    /\ i = Len(s) + 1 \/ s[i] \notin Digits
    IN  SubSeq(s, 1, stop - 1)

RECURSIVE DecimalValue(_)
DecimalValue(d) ==
    IF d = <<>> THEN 0
    ELSE 10 * DecimalValue(SubSeq(d, 1, Len(d) - 1)) + DigitValue[d[Len(d)]]

\* the fraction digits as thousandths (digits past the third are dropped)
Thousandths(d) ==
    LET padded == SubSeq(d \o <<"0", "0", "0">>, 1, 3)
    IN  DecimalValue(padded)

\* parseFloat on trimmed text: [sign] digits [. digits], the rest ignored;
\* NaN when no digit is found.  Numbers are kept in thousandths.
\* (Exponents and "Infinity" are not part of the inputs.)
parseFloat(s) ==
    LET signed   == s # <<>> /\ s[1] \in {"-", "+"}
        body     == IF signed THEN Tail(s) ELSE s
        intPart  == DigitPrefix(body)
        rest     == SubSeq(body, Len(intPart) + 1, Len(body))
        fracPart == IF rest # <<>> /\ rest[1] = "." THEN DigitPrefix(Tail(rest)) ELSE <<>>
        mag      == 1000 * DecimalValue(intPart) + Thousandths(fracPart)
    IN  IF intPart = <<>> /\ fracPart = <<>> THEN NaN
        ELSE Num(IF signed /\ s[1] = "-" THEN 0 - mag ELSE mag)

(***************************************************************************)
(* Row normalizer (the body of parseCSV's row loop).                       *)
(* A file is [name, lines]; lines is what csvText.split(/\r\n|\n/) yields, *)
(* each line held as the cells line.split(',') yields (not yet trimmed).   *)
(***************************************************************************)
requiredFields == << "user_wallet", "loan_amount", "loan_term", "loan_due_date" >>

Range(f) == {f[i] : i \in DOMAIN f}

Fields == Range(FieldOrder)

DateFields == {"default_loan_date", "time_loan_ended", "loan_due_date", "time_loan_started"}

\* new Date(2099, 12, 31).toISOString().split('T')[0]: month 12 rolls over to
\* January 2100; local midnight printed in UTC is that day or the day before.
TimeZones == {"utcOrWest", "east"}

FarFutureDueDate(tz) ==
    IF tz = "east"
    THEN <<"2","1","0","0","-","0","1","-","3","0">>
    ELSE <<"2","1","0","0","-","0","1","-","3","1">>

\* originalHeaders.forEach: column index -> canonical field or none
RECURSIVE BuildHeaderMap(_)
BuildHeaderMap(headerRow) ==
    IF headerRow = <<>> THEN <<>>
    ELSE Append(BuildHeaderMap(SubSeq(headerRow, 1, Len(headerRow) - 1)),
                findStandardFieldName(trim(headerRow[Len(headerRow)])))

foundRequiredFields(headerMap) ==
    {f \in Range(requiredFields) : \E i \in DOMAIN headerMap : headerMap[i] = f}

missingRequiredHeaders(headerMap) ==
    SelectSeq(requiredFields, LAMBDA f : f \notin foundRequiredFields(headerMap))

\* !lines[i].trim(): the line holds nothing but white space
IsBlankLine(line) == Len(line) = 1 /\ trim(line[1]) = <<>>

CoerceCell(standardField, value) ==
    CASE standardField \in {"loan_amount", "loan_term"} ->
            IF Truthy(parseFloat(value)) THEN parseFloat(value) ELSE Num(0)
      [] standardField = "loan_repaid_amount" ->
            IF value # <<>> THEN parseFloat(value) ELSE Null
      [] standardField = "is_defaulted" ->
            Bool(toLowerCase(value) = <<"t","r","u","e">>)
      [] standardField \in DateFields ->
            IF value # <<>> THEN Str(value) ELSE Null
      [] OTHER ->
            Str(value)

\* a variant in which the first column of a field wins
MapValuesFirstWins(headerMap, line) ==
    [f \in Fields |->
        LET cols  == {i \in 1..Len(line) : i <= Len(headerMap) /\ headerMap[i] = f}
            first == CHOOSE i \in cols : \A j \in cols : i <= j
        IN  IF cols = {} THEN Undefined ELSE CoerceCell(f, trim(line[first]))]

\* values.forEach: a later column of the same field overwrites an earlier one;
\* a field with no cell in this row stays undefined
MapValues(headerMap, line) ==
    [f \in Fields |->
        LET cols == {i \in 1..Len(line) : i <= Len(headerMap) /\ headerMap[i] = f}
            last == CHOOSE i \in cols : \A j \in cols : j <= i
        IN  IF cols = {} THEN Undefined ELSE CoerceCell(f, trim(line[last]))]

\* a variant whose due-date default lies a century earlier
DefaultOfLastCentury(field, tz) ==
    IF field \in {"loan_amount", "loan_term"} THEN Num(0)
    ELSE Str(<<"1","9","9","9","-","1","2","-","3","1">>)

DefaultOf(field, tz) ==
    IF field \in {"loan_amount", "loan_term"} THEN Num(0)
    ELSE Str(FarFutureDueDate(tz))

\* a variant that never fills a default
NeedsDefaultNever(loan, field) == FALSE

NeedsDefault(loan, field) == ~Truthy(loan[field]) /\ field # "user_wallet"

FillDefaults(loan, tz) ==
    [f \in Fields |->
        IF f \in Range(requiredFields) /\ NeedsDefault(loan, f)
        THEN DefaultOf(f, tz) ELSE loan[f]]

\* a variant that rejects only a row with no wallet cell at all
RowRejectedIfNoCell(loan) == loan.user_wallet.t = "undefined"

RowRejected(loan) == ~Truthy(loan.user_wallet)

InitOptional(loan) ==
    [loan EXCEPT
        !.is_defaulted       = IF @.t = "undefined" THEN Bool(FALSE) ELSE @,
        !.loan_repaid_amount = IF ~Truthy(@) THEN Null ELSE @,
        !.version            = IF ~Truthy(@) THEN Str(<<>>) ELSE @]

(***************************************************************************)
(* Error values.  A message is its sequence of words, so that              *)
(* message.includes(...) is a search for a run of words.                   *)
(***************************************************************************)
\* new Error(message)
ErrorOf(message) == [isError |-> TRUE, message |-> message, origin |-> 0]

Includes(message, words) ==
    \E k \in 0..(Len(message) - Len(words)) :
        \A j \in 1..Len(words) : message[k + j] = words[j]

MsgNoContent == <<"Failed", "to", "read", "file", "content">>

MsgEmptyFile == <<"CSV", "file", "is", "empty", "or", "has", "only", "headers">>

\* `CSV is missing all required fields. Required: ...` and the detail lines
MsgMissingAll ==
    <<"CSV", "is", "missing", "all", "required", "fields", ".", "Required", ":">>
    \o requiredFields \o <<"Found", "fields", ":">>

MsgNoValidRows(invalidRows) ==
    <<"No", "valid", "loan", "data", "found", ".", ToString(invalidRows),
      "rows", "had", "validation", "errors", ".">>

MsgNoLoanData == <<"No", "loan", "data", "found", "in", "CSV", "file">>

(***************************************************************************)
(* parseCSV, the synchronous part of reader.onload: from the first         *)
(* progress event to the first await (or to a reject).                     *)
(***************************************************************************)
Min(a, b) == IF a < b THEN a ELSE b

Max(a, b) == IF a > b THEN a ELSE b

\* Math.min(20 + Math.floor((processedLines / totalLines) * 30), 50)
RowPercent(processedLines, totalLines) ==
    Min(20 + ((processedLines * 30) \div totalLines), 50)

RowProgressDue(processedLines, totalLines) ==
    \/ processedLines % Max(1, totalLines \div 20) = 0
    \/ processedLines = totalLines

NoRows == [loans |-> <<>>, processedLines |-> 0, invalidRows |-> 0,
           validRows |-> 0, percents |-> <<>>]

\* one accepted row: push, count, report progress
AcceptRow(acc, loan, totalLines) ==
    [acc EXCEPT
        !.loans          = Append(@, InitOptional(loan)),
        !.validRows      = @ + 1,
        !.processedLines = @ + 1,
        !.percents       = IF RowProgressDue(acc.processedLines + 1, totalLines)
                           THEN Append(@, RowPercent(acc.processedLines + 1, totalLines))
                           ELSE @]

\* a variant in which a rejected row discards what was accepted before it
RejectRowDiscards(acc) == [NoRows EXCEPT !.invalidRows = acc.invalidRows + 1]

\* one rejected row: count it and go on with the next line
RejectRow(acc) == [acc EXCEPT !.invalidRows = @ + 1]

\* the body of the row loop for lines[i]
RowStep(lines, headerMap, tz, i, acc) ==
    IF IsBlankLine(lines[i]) THEN acc
    ELSE LET loan == FillDefaults(MapValues(headerMap, lines[i]), tz)
         IN  IF RowRejected(loan) THEN RejectRow(acc)
             ELSE AcceptRow(acc, loan, Len(lines) - 1)

\* for (let i = 1; i < lines.length; i++), here over lines[lo..hi] in order
\* (line i of the code is lines[i + 1] here).  The range is halved, and the
\* first half is computed before the second is entered (the test on
\* processedLines is always true), so that the evaluation does not nest
\* once per line.
RECURSIVE RowLoop(_, _, _, _, _, _)
RowLoop(lines, headerMap, tz, lo, hi, acc) ==
    IF lo > hi THEN acc
    ELSE IF lo = hi THEN RowStep(lines, headerMap, tz, lo, acc)
    ELSE LET mid == (lo + hi) \div 2
             left == RowLoop(lines, headerMap, tz, lo, mid, acc)
         IN  IF left.processedLines >= 0
             THEN RowLoop(lines, headerMap, tz, mid + 1, hi, left)
             ELSE left

\* csvText is the empty string
IsEmptyText(lines) == lines = << << <<>> >> >>

\* a variant in which any missing required header is fatal
HeaderIsFatalIfAnyMissing(headerMap) == Len(missingRequiredHeaders(headerMap)) > 0

HeaderIsFatal(headerMap) ==
    Len(missingRequiredHeaders(headerMap)) = Len(requiredFields)

\* a variant in which a failed validation does not end the call
RejectedButGoesOn(stage, message, percents, invalidRows) ==
    [settled |-> "storing", stage |-> "store", error |-> ErrorOf(<<>>),
     loans |-> <<>>, invalidRows |-> invalidRows, percents |-> percents]

Rejected(stage, message, percents, invalidRows) ==
    [settled |-> "rejected", stage |-> stage, error |-> ErrorOf(message),
     loans |-> <<>>, invalidRows |-> invalidRows, percents |-> percents]

\* The outcome of the synchronous part: rejected at a stage, or ready to store
\* ("storing": the file_uploads insert is the next thing issued).
ParsePhase(file, tz) ==
    LET lines     == file.lines
        headerMap == BuildHeaderMap(lines[1])
        rows      == RowLoop(lines, headerMap, tz, 2, Len(lines), NoRows)
    IN  IF IsEmptyText(lines)
        THEN Rejected("read", MsgNoContent, <<10>>, 0)
        ELSE IF Len(lines) < 2
        THEN Rejected("lines", MsgEmptyFile, <<10>>, 0)
        ELSE IF HeaderIsFatal(headerMap)
        THEN Rejected("header", MsgMissingAll, <<10>>, 0)
        ELSE IF rows.loans = <<>>
        THEN Rejected("rows",
                      IF rows.invalidRows > 0 THEN MsgNoValidRows(rows.invalidRows)
                      ELSE MsgNoLoanData,
                      <<10, 20>> \o rows.percents, rows.invalidRows)
        ELSE [settled |-> "storing", stage |-> "store", error |-> ErrorOf(<<>>),
              loans |-> rows.loans, invalidRows |-> rows.invalidRows,
              percents |-> <<10, 20>> \o rows.percents \o <<50>>]

(***************************************************************************)
(* Input files.                                                            *)
(***************************************************************************)
MaxRows == 3

RECURSIVE ToDigits(_)
ToDigits(n) ==
    IF n < 10 THEN <<CHOOSE c \in Digits : DigitValue[c] = n>>
    ELSE ToDigits(n \div 10) \o <<CHOOSE c \in Digits : DigitValue[c] = n % 10>>

\* header spellings used in the files, one per canonical field
HeaderCell(field) ==
    CASE field = "user_wallet"        -> <<"W","a","l","l","e","t"," ","A","d","d","r","e","s","s">>
      [] field = "loan_amount"        -> <<" ","a","m","o","u","n","t">>
      [] field = "loan_term"          -> <<"l","o","a","n","-","d","a","y","s">>
      [] field = "loan_due_date"      -> <<"D","u","e"," "," ","D","a","t","e">>
      [] field = "loan_repaid_amount" -> <<"p","a","i","d">>
      [] field = "is_defaulted"       -> <<"d","e","f","a","u","l","t">>
      [] OTHER                        -> <<"n","o","t","e","s">>

\* the cell a row of a given kind holds under a column of a given field
Cell(kind, field, rowNumber) ==
    CASE field = "user_wallet" ->
            (CASE kind = "noWallet"    -> <<>>
               [] kind = "blankWallet" -> <<" ", " ">>
               [] OTHER                -> <<"0","x">> \o ToDigits(rowNumber))
      [] field = "loan_amount" ->
            (CASE kind = "garbage" -> <<"n","/","a">>
               [] kind = "ten"     -> <<"1","0">>
               [] OTHER            -> <<" ","1",".","0","0">>)
      [] field = "loan_term" ->
            (CASE kind = "garbage" -> <<>>
               [] OTHER            -> <<"3","0">>)
      [] field = "loan_due_date" ->
            (CASE kind = "garbage" -> <<>>
               [] kind = "badDate" -> <<"s","o","o","n">>
               [] kind = "ten"     -> <<"2","0","2","5","-","0","1","-","0","2">>
               [] OTHER            -> <<"2","0","2","5","-","0","1","-","0","1">>)
      [] field = "loan_repaid_amount" ->
            (CASE kind = "garbage" -> <<"0">>
               [] kind = "ten"     -> <<"1","0",".","1","5">>
               [] OTHER            -> <<>>)
      [] field = "is_defaulted" ->
            (CASE kind = "ten"     -> <<"T","R","U","E">>
               [] OTHER            -> <<"n","o">>)
      [] OTHER -> <<"x">>

\* a data line: one cell per header column; "blank" is an empty line and
\* "short" a line cut after its first cell; under a column that repeats an
\* earlier one a "secondEmpty" row has an empty cell and a "twins" row another
\* value
\* the cell of a "twins" row under a column that repeats an earlier one
TwinCell(field, rowNumber) ==
    CASE field = "user_wallet"   -> <<"0","y">> \o ToDigits(rowNumber)
      [] field = "loan_amount"   -> <<"1","0">>
      [] field = "loan_due_date" -> <<"2","0","2","5","-","0","1","-","0","2">>
      [] OTHER                   -> <<"y">>

\* column c names the field of an earlier column
Repeats(columns, c) == \E b \in 1..(c - 1) : columns[b] = columns[c]

Line(kind, columns, rowNumber) ==
    CASE kind = "blank" -> << <<" ">> >>
      [] kind = "short" -> << Cell(kind, columns[1], rowNumber) >>
      [] OTHER          ->
            [c \in 1..Len(columns) |->
                IF kind = "secondEmpty" /\ Repeats(columns, c) THEN <<>>
                ELSE IF kind = "twins" /\ Repeats(columns, c)
                THEN TwinCell(columns[c], rowNumber)
                ELSE Cell(kind, columns[c], rowNumber)]

CsvName == <<"l","o","a","n","s",".","c","s","v">>

MakeFile(columns, kinds) ==
    [name  |-> CsvName,
     lines |-> << [c \in 1..Len(columns) |-> HeaderCell(columns[c])] >>
               \o [r \in 1..Len(kinds) |-> Line(kinds[r], columns, r)]]

EmptyTextFile == [name |-> CsvName, lines |-> << << <<>> >> >>]

(***************************************************************************)
(* The metrics engine (loanCalculations).  Amounts are numbers in          *)
(* thousandths.  A due date is held as what new Date(loan.loan_due_date)   *)
(* yields: invalid, or an instant, counted in hours from `today` (local    *)
(* midnight of the day the dashboard is computed).                         *)
(*                                                                         *)
(* The file exists in two revisions: loanCalculations.ts as named (the     *)
(* definitions that carry the source's names) and the revision that also   *)
(* exports getExpiredLoans (definitions ending in 010).                    *)
(***************************************************************************)
MaxLoans == 2

HoursPerDay == 24

InvalidDate == [valid |-> FALSE, time |-> 0]

DateAt(hours) == [valid |-> TRUE, time |-> hours]

\* Math.ceil(a / b) for b > 0
Ceil(a, b) == 0 - ((0 - a) \div b)

Abs(a) == IF a < 0 THEN 0 - a ELSE a

\* !isNaN(dueDate.getTime()) && dueDate > today
IsAfterToday(dueDate) == dueDate.valid /\ dueDate.time > 0

\* !isNaN(dueDate.getTime()) && dueDate >= today
IsTodayOrAfter(dueDate) == dueDate.valid /\ dueDate.time >= 0

\* !isNaN(dueDate.getTime()) && dueDate < today
IsBeforeToday(dueDate) == dueDate.valid /\ dueDate.time < 0

\* loan.loan_repaid_amount === undefined || loan.loan_repaid_amount === null
isMissingRepaidAmount(loan) == loan.loan_repaid_amount.t \in {"undefined", "null"}

\* loan.is_defaulted === true
isDefaulted(loan) == loan.is_defaulted = Bool(TRUE)

\* a variant that takes the empty string for a date
hasDefaultDateUnlessNull(loan) == loan.default_loan_date.t \notin {"null", "undefined"}

\* default_loan_date !== null && default_loan_date !== "" && !== undefined
hasDefaultDate(loan) ==
    /\ loan.default_loan_date.t \notin {"null", "undefined"}
    /\ loan.default_loan_date # Str(<<>>)

\* loan.is_defaulted || loan.default_loan_date
DefaultedOrDated(loan) == Truthy(loan.is_defaulted) \/ Truthy(loan.default_loan_date)

\* the repayment thresholds of the two tiers, and the tiers' face values
oneDollarThreshold == 1025

tenDollarThreshold == 10150

oneDollar == 1000

tenDollar == 10000

\* Math.abs(loan.loan_amount - face) < 0.01
NearFace(loan, face) == Abs(loan.loan_amount.n - face) < 10

NoTier == [defaulted |-> 0, repaid |-> 0, inProgress |-> 0, total |-> 0]

NoMetrics(n) ==
    [totalLoans |-> n, totalDefaulted |-> 0, totalInProgress |-> 0,
     oneDollarLoans |-> NoTier, tenDollarLoans |-> NoTier]

\* a variant in which the face value repaid counts as repaid
TierStepAtFaceValue(tier, loan, threshold) ==
    [tier EXCEPT
        !.total      = @ + 1,
        !.defaulted  = IF isDefaulted(loan) \/ hasDefaultDate(loan) THEN @ + 1 ELSE @,
        !.repaid     = IF /\ ~(isDefaulted(loan) \/ hasDefaultDate(loan))
                          /\ ~isMissingRepaidAmount(loan)
                          /\ loan.loan_repaid_amount.n >= loan.loan_amount.n
                       THEN @ + 1 ELSE @,
        !.inProgress = IF /\ ~(isDefaulted(loan) \/ hasDefaultDate(loan))
                          /\ (isMissingRepaidAmount(loan)
                                \/ loan.loan_repaid_amount.n < loan.loan_amount.n)
                          /\ IsAfterToday(loan.loan_due_date)
                       THEN @ + 1 ELSE @]

\* the body of `if (Math.abs(loan.loan_amount - face) < 0.01) { ... }`
TierStep(tier, loan, threshold) ==
    [tier EXCEPT
        !.total      = @ + 1,
        !.defaulted  = IF isDefaulted(loan) \/ hasDefaultDate(loan) THEN @ + 1 ELSE @,
        !.repaid     = IF /\ ~(isDefaulted(loan) \/ hasDefaultDate(loan))
                          /\ ~isMissingRepaidAmount(loan)
                          /\ loan.loan_repaid_amount.n >= threshold
                       THEN @ + 1 ELSE @,
        !.inProgress = IF /\ ~(isDefaulted(loan) \/ hasDefaultDate(loan))
                          /\ (isMissingRepaidAmount(loan)
                                \/ loan.loan_repaid_amount.n < threshold)
                          /\ IsAfterToday(loan.loan_due_date)
                       THEN @ + 1 ELSE @]

\* the body of loans.forEach in calculateLoanMetrics
MetricsStep(metrics, loan) ==
    [metrics EXCEPT
        !.totalDefaulted  = IF isDefaulted(loan) \/ hasDefaultDate(loan)
                            THEN @ + 1 ELSE @,
        !.totalInProgress = IF /\ ~isDefaulted(loan) /\ ~hasDefaultDate(loan)
                               /\ IsAfterToday(loan.loan_due_date)
                               /\ (isMissingRepaidAmount(loan)
                                     \/ loan.loan_repaid_amount.n < loan.loan_amount.n)
                            THEN @ + 1 ELSE @,
        !.oneDollarLoans  = IF NearFace(loan, oneDollar)
                            THEN TierStep(@, loan, oneDollarThreshold) ELSE @,
        !.tenDollarLoans  = IF NearFace(loan, tenDollar)
                            THEN TierStep(@, loan, tenDollarThreshold) ELSE @]

RECURSIVE MetricsLoop(_, _)
MetricsLoop(metrics, loans) ==
    IF loans = <<>> THEN metrics
    ELSE MetricsLoop(MetricsStep(metrics, Head(loans)), Tail(loans))

calculateLoanMetrics(loans) == MetricsLoop(NoMetrics(Len(loans)), loans)

\* --- the revision that exports getExpiredLoans
\* loan.loan_repaid_amount !== null && loan.loan_repaid_amount >= loan.loan_amount
RepaidInFull010(loan) ==
    /\ loan.loan_repaid_amount.t = "number"
    /\ loan.loan_repaid_amount.n >= loan.loan_amount.n

TierStep010(tier, loan) ==
    [tier EXCEPT
        !.total      = @ + 1,
        !.defaulted  = IF DefaultedOrDated(loan) THEN @ + 1 ELSE @,
        !.repaid     = IF ~DefaultedOrDated(loan) /\ RepaidInFull010(loan)
                       THEN @ + 1 ELSE @,
        !.inProgress = IF ~DefaultedOrDated(loan) /\ ~RepaidInFull010(loan)
                       THEN @ + 1 ELSE @]

MetricsStep010(metrics, loan) ==
    [metrics EXCEPT
        !.totalDefaulted  = IF DefaultedOrDated(loan) THEN @ + 1 ELSE @,
        !.totalInProgress = IF ~DefaultedOrDated(loan) /\ ~RepaidInFull010(loan)
                            THEN @ + 1 ELSE @,
        !.oneDollarLoans  = IF loan.loan_amount = Num(oneDollar)
                            THEN TierStep010(@, loan) ELSE @,
        !.tenDollarLoans  = IF loan.loan_amount = Num(tenDollar)
                            THEN TierStep010(@, loan) ELSE @]

RECURSIVE MetricsLoop010(_, _)
MetricsLoop010(metrics, loans) ==
    IF loans = <<>> THEN metrics
    ELSE MetricsLoop010(MetricsStep010(metrics, Head(loans)), Tail(loans))

\* `if (!loans || loans.length === 0) return metrics` leaves totalLoans 0
calculateLoanMetrics010(loans) == MetricsLoop010(NoMetrics(Len(loans)), loans)

(***************************************************************************)
(* groupLoansByDueDate and getExpiredLoans.                                *)
(***************************************************************************)
\* the horizons of dueGroups, in days
groupDays == <<1, 5, 7, 10, 14, 30>>

\* days: Infinity, the label of the group past the last horizon
Infinity == "Infinity"

\* Array.prototype.sort by due time (stable): insertion from the left
RECURSIVE SortByDueDate(_)
SortByDueDate(loans) ==
    IF loans = <<>> THEN <<>>
    ELSE LET sorted == SortByDueDate(SubSeq(loans, 1, Len(loans) - 1))
             last   == loans[Len(loans)]
             before == SelectSeq(sorted, LAMBDA l : l.loan_due_date.time <= last.loan_due_date.time)
             after  == SelectSeq(sorted, LAMBDA l : l.loan_due_date.time > last.loan_due_date.time)
         IN  before \o <<last>> \o after

\* the filter of activeLoans in loanCalculations.ts
IsActive(loan) ==
    /\ ~DefaultedOrDated(loan)
    /\ IsTodayOrAfter(loan.loan_due_date)
    /\ (isMissingRepaidAmount(loan) \/ loan.loan_repaid_amount.n < loan.loan_amount.n)

\* Math.ceil(Math.abs(dueDate.getTime() - today.getTime()) / (1000*60*60*24))
diffDays(loan) == Ceil(Abs(loan.loan_due_date.time), HoursPerDay)

\* group g after activeLoans.forEach and the sort
GroupOf(activeLoans, g) ==
    LET members == SelectSeq(activeLoans, LAMBDA l : diffDays(l) <= groupDays[g])
    IN  [days |-> groupDays[g], count |-> Len(members), loans |-> SortByDueDate(members)]

groupLoansByDueDate(loans) ==
    LET activeLoans == SelectSeq(loans, IsActive)
    IN  [g \in 1..Len(groupDays) |-> GroupOf(activeLoans, g)]

\* --- the revision that exports getExpiredLoans
\* a variant that compares the due date with today the wrong way round
IsActiveUntilToday(loan) ==
    /\ ~DefaultedOrDated(loan)
    /\ loan.loan_due_date.valid /\ loan.loan_due_date.time <= 0
    /\ (isMissingRepaidAmount(loan) \/ loan.loan_repaid_amount.n < loan.loan_amount.n)

IsActive010(loan) ==
    /\ ~DefaultedOrDated(loan)
    /\ IsAfterToday(loan.loan_due_date)
    /\ (isMissingRepaidAmount(loan) \/ loan.loan_repaid_amount.n < loan.loan_amount.n)

\* Math.ceil((dueDate.getTime() - today.getTime()) / (1000*60*60*24))
diffDays010(loan) == Ceil(loan.loan_due_date.time, HoursPerDay)

\* a variant that puts a loan in the nearest group only
GroupOfNearestOnly(activeLoans, g) ==
    LET members == SelectSeq(activeLoans, LAMBDA l :
                       /\ diffDays010(l) <= groupDays[g]
                       /\ g > 1 => diffDays010(l) > groupDays[g - 1])
    IN  [days |-> groupDays[g], count |-> Len(members), loans |-> SortByDueDate(members)]

GroupOf010(activeLoans, g) ==
    LET members == SelectSeq(activeLoans, LAMBDA l : diffDays010(l) <= groupDays[g])
    IN  [days |-> groupDays[g], count |-> Len(members), loans |-> SortByDueDate(members)]

\* the group "Due in >30 days": !addedToAnyGroup && diffDays > 30
OverflowGroup(activeLoans) ==
    LET members == SelectSeq(activeLoans, LAMBDA l :
                       /\ \A g \in 1..Len(groupDays) : ~(diffDays010(l) <= groupDays[g])
                       /\ diffDays010(l) > 30)
    IN  [days |-> Infinity, count |-> Len(members), loans |-> SortByDueDate(members)]

groupLoansByDueDate010(loans) ==
    LET activeLoans == SelectSeq(loans, IsActive010)
    IN  [g \in 1..Len(groupDays) |-> GroupOf010(activeLoans, g)]
        \o <<OverflowGroup(activeLoans)>>

\* the filter of getExpiredLoans
IsExpired(loan) ==
    /\ ~DefaultedOrDated(loan)
    /\ IsBeforeToday(loan.loan_due_date)
    /\ (isMissingRepaidAmount(loan) \/ loan.loan_repaid_amount.n < loan.loan_amount.n)

getExpiredLoans(loans) == SortByDueDate(SelectSeq(loans, IsExpired))

\* getDaysRemaining(dueDateString): 0 for an invalid date, else the ceiling of
\* (dueDate - today) in days
getDaysRemaining(dueDate) ==
    IF ~dueDate.valid THEN 0 ELSE Ceil(dueDate.time, HoursPerDay)

\* LoanTable: the rows of a table, each with its "Days Left" cell
LoanTable(loans) ==
    [k \in 1..Len(loans) |->
        [loan |-> loans[k], daysRemaining |-> getDaysRemaining(loans[k].loan_due_date)]]

\* the tables of the groups' tabs
GroupTables(groups) == [g \in 1..Len(groups) |-> LoanTable(groups[g].loans)]

(***************************************************************************)
(* new Date(loan.loan_due_date) for the values parseCSV leaves in a record. *)
(***************************************************************************)
\* days from 1970-01-01 to a date of the proleptic Gregorian calendar
DaysFromCivil(y, m, d) ==
    LET yy  == IF m <= 2 THEN y - 1 ELSE y
        era == yy \div 400
        yoe == yy - era * 400
        mp  == IF m > 2 THEN m - 3 ELSE m + 9
        doy == (153 * mp + 2) \div 5 + d - 1
        doe == yoe * 365 + yoe \div 4 - yoe \div 100 + doy
    IN  era * 146097 + doe - 719468

\* the number a run of digits denotes
RECURSIVE DigitsValue(_)
DigitsValue(text) ==
    IF text = <<>> THEN 0
    ELSE 10 * DigitsValue(SubSeq(text, 1, Len(text) - 1)) + DigitValue[text[Len(text)]]

\* the date-only form YYYY-MM-DD
IsDateOnly(text) ==
    /\ Len(text) = 10
    /\ text[5] = "-" /\ text[8] = "-"
    /\ \A i \in {1, 2, 3, 4, 6, 7, 9, 10} : text[i] \in Digits
    /\ DigitsValue(SubSeq(text, 6, 7)) \in 1..12
    /\ DigitsValue(SubSeq(text, 9, 10)) \in 1..31

\* the day the dashboard is computed, and the hours local time is ahead of UTC
\* in the zones east of it
Today == [year |-> 2025, month |-> 1, day |-> 2]

EastOffsetHours == 2

UtcOffsetHours(tz) == IF tz = "east" THEN EastOffsetHours ELSE 0

\* the hours from today's local midnight to UTC midnight of a day number
HoursFromToday(days, tz) ==
    (days - DaysFromCivil(Today.year, Today.month, Today.day)) * HoursPerDay
    + UtcOffsetHours(tz)

\* new Date(value): a date-only text is UTC midnight of that day, any other
\* text of the files is not a date; null is the epoch, undefined is invalid
newDate(value, tz) ==
    CASE value.t = "string" ->
            IF IsDateOnly(value.s)
            THEN DateAt(HoursFromToday(DaysFromCivil(DigitsValue(SubSeq(value.s, 1, 4)),
                                                     DigitsValue(SubSeq(value.s, 6, 7)),
                                                     DigitsValue(SubSeq(value.s, 9, 10))), tz))
            ELSE InvalidDate
      [] value.t = "null" -> DateAt(HoursFromToday(0, tz))
      [] OTHER -> InvalidDate

\* a record of parseCSV as the metrics engine reads it
LoanDataOf(loan, tz) ==
    [loan_amount        |-> loan.loan_amount,
     loan_repaid_amount |-> loan.loan_repaid_amount,
     loan_due_date      |-> newDate(loan.loan_due_date, tz),
     is_defaulted       |-> loan.is_defaulted,
     default_loan_date  |-> loan.default_loan_date]

(***************************************************************************)
(* Loan collections handed to the dashboard.                               *)
(***************************************************************************)
Loan(amount, repaid, due, defaulted, defaultDate) ==
    [loan_amount |-> Num(amount), loan_repaid_amount |-> repaid,
     loan_due_date |-> due, is_defaulted |-> Bool(defaulted),
     default_loan_date |-> defaultDate]

SomeDate == Str(<<"2","0","2","5","-","0","1","-","0","1">>)

Amounts == {oneDollar, 1005, tenDollar}

RepaidAmounts == {Null, Num(oneDollar), Num(oneDollarThreshold), Num(tenDollar),
                  Num(tenDollarThreshold)}

\* yesterday, today at midnight and at noon, in 3 days at midnight and at noon,
\* in 31 days, no date
DueDates == {InvalidDate, DateAt(-24), DateAt(0), DateAt(12), DateAt(72), DateAt(84),
             DateAt(744)}

\* loans in good standing in every combination; defaulted ones in a few
LoanSamples ==
    { Loan(a, r, d, FALSE, Null) : a \in Amounts, r \in RepaidAmounts, d \in DueDates }
    \cup { Loan(a, r, d, FALSE, Str(<<>>)) :
            a \in Amounts, r \in {Null, Num(tenDollarThreshold)}, d \in {DateAt(-24), DateAt(72)} }
    \cup { Loan(a, r, d, TRUE, Null) :
            a \in Amounts, r \in {Null, Num(tenDollarThreshold)}, d \in {DateAt(-24), DateAt(72)} }
    \cup { Loan(a, r, d, FALSE, SomeDate) :
            a \in Amounts, r \in {Null, Num(tenDollarThreshold)}, d \in {DateAt(-24), DateAt(72)} }

LoanCollections == UNION { [1..n -> LoanSamples] : n \in 0..MaxLoans }

NotComputed == [state |-> "none"]

\* the dashboard's variables while another part is exercised
IdleCalc ==
    /\ data = <<>>
    /\ dashboard = NotComputed
    /\ expiredLoans = NotComputed

InitCalc ==
    /\ data \in LoanCollections
    /\ dashboard = NotComputed
    /\ expiredLoans = NotComputed
    /\ hdrField = "version" /\ hdrText = <<"v">> /\ hdrResult = "pending"
    /\ parseFile = EmptyTextFile /\ parseTz = "utcOrWest"
    /\ parseOut = [settled |-> "pending"]
    /\ user = [files |-> "small", uploads |-> 0, timeZone |-> "utcOrWest"]
    /\ calls = 0
    /\ ing = <<>>
    /\ ui = [isLoading |-> FALSE]
    /\ requests = <<>>
    /\ store = [file_uploads |-> <<>>, loans |-> {}]

\* Dashboard: useEffect on data -> calculateAllMetrics(data)
calculateAllMetrics ==
    /\ Len(data) > 0
    /\ dashboard.state = "none"
    /\ dashboard' = [state            |-> "set",
                     metrics          |-> calculateLoanMetrics(data),
                     dueDateGroups    |-> groupLoansByDueDate(data),
                     metrics010       |-> calculateLoanMetrics010(data),
                     dueDateGroups010 |-> groupLoansByDueDate010(data)]
    /\ UNCHANGED <<data, expiredLoans>>
    /\ UNCHANGED <<hdrVars, parseVars, pipeVars>>

\* UpcomingLoans, rendered once the metrics are set
RenderUpcomingLoans ==
    /\ dashboard.state = "set"
    /\ expiredLoans.state = "none"
    /\ expiredLoans' = [state          |-> "set",
                        loans          |-> getExpiredLoans(data),
                        table          |-> LoanTable(getExpiredLoans(data)),
                        groupTables    |-> GroupTables(dashboard.dueDateGroups),
                        groupTables010 |-> GroupTables(dashboard.dueDateGroups010)]
    /\ UNCHANGED <<data, dashboard>>
    /\ UNCHANGED <<hdrVars, parseVars, pipeVars>>

NextCalc == calculateAllMetrics \/ RenderUpcomingLoans

(***************************************************************************)
(* The store behind the Supabase client: tables file_uploads and loans.    *)
(***************************************************************************)
batchSize == 100

NaturalKey(row) == <<row.user_wallet, row.loan_amount, row.loan_due_date>>

\* a variant that inserts the batch without looking for a conflict
UpsertAppends(table, batch) == table \cup {batch[k] : k \in 1..Len(batch)}

\* upsert(batch, {onConflict: 'user_wallet,loan_amount,loan_due_date'}):
\* a row of the batch replaces the stored row of the same key
Upsert(table, batch) ==
    {row \in table : \A k \in 1..Len(batch) : NaturalKey(batch[k]) # NaturalKey(row)}
    \cup {batch[k] : k \in {j \in 1..Len(batch) :
                \A l \in (j + 1)..Len(batch) : NaturalKey(batch[l]) # NaturalKey(batch[j])}}

\* insert({file_name, record_count}).select().single(): the store assigns the id
NewUploadRow(table, fileName, recordCount) ==
    [id |-> Str(ToDigits(Len(table) + 1)), file_name |-> fileName,
     record_count |-> recordCount]

\* what a failed call hands back: {error} from the client, or an exception
BackendError(id) ==
    [isError |-> FALSE, message |-> <<"backend", "error">>, origin |-> id]

FetchFailure(id) ==
    [isError |-> TRUE, message |-> <<"Failed", "to", "fetch">>, origin |-> id]

FailureOf(outcome, id) ==
    IF outcome = "thrown" THEN FetchFailure(id) ELSE BackendError(id)

(***************************************************************************)
(* storeLoansInDatabase: the rows sent and their batches.                  *)
(***************************************************************************)
\* a variant that leaves the upload's id out
WithFileIdBlank(loan, fileUploadId) ==
    [f \in Fields \cup {"file_upload_id"} |->
        IF f = "file_upload_id" THEN Str(<<>>) ELSE loan[f]]

WithFileId(loan, fileUploadId) ==
    [f \in Fields \cup {"file_upload_id"} |->
        IF f = "file_upload_id" THEN fileUploadId ELSE loan[f]]

loansToUpsert(loanSeq, fileUploadId) ==
    [k \in 1..Len(loanSeq) |-> WithFileId(loanSeq[k], fileUploadId)]

\* for (i = 0; i < length; i += batchSize) batches.push(slice(i, i + batchSize))
BatchCount(n) == (n + batchSize - 1) \div batchSize

\* a variant whose slices start one row early: slice(i - 1, i + batchSize)
BatchOfOverlapping(rows, b) ==
    SubSeq(rows, Max((b - 1) * batchSize, 1), Min(b * batchSize, Len(rows)))

BatchOf(rows, b) ==
    SubSeq(rows, (b - 1) * batchSize + 1, Min(b * batchSize, Len(rows)))

\* a variant that reports the share of rows stored as the percent
BatchPercentOfRows(processedCount, totalCount) ==
    (processedCount * 100) \div totalCount

\* 60 + Math.floor((processedCount / totalCount) * 30)
BatchPercent(processedCount, totalCount) ==
    60 + ((processedCount * 30) \div totalCount)

(***************************************************************************)
(* processFile (CSVUploader) and what it shows.                            *)
(***************************************************************************)
NoMessage == <<>>

NoError == [isError |-> FALSE, message |-> <<>>, origin |-> 0]

MsgTimeout == <<"Processing", "timed", "out", "after", "30", "seconds">>

MsgTimedOutShown ==
    <<"Processing", "timed", "out", ".", "Try", "with", "a", "smaller", "file",
      "or", "try", "again", "later", ".">>

MsgRowsMissingFields ==
    <<"Some", "rows", "have", "missing", "required", "fields", ".">>

MsgFailed == <<"Failed", "to", "process", "CSV", "file", ".">>

MsgNoValidData ==
    <<"The", "CSV", "file", "contains", "no", "valid", "loan", "data", ".">>

\* file.name.endsWith('.csv')
EndsWithCsv(name) ==
    /\ Len(name) >= 4
    /\ SubSeq(name, Len(name) - 3, Len(name)) = <<".", "c", "s", "v">>

\* a variant that shows the same message for every failure
ErrorMessageGeneric(error) == MsgFailed

\* the catch block's choice of message
ErrorMessageFor(error) ==
    IF ~error.isError THEN MsgFailed
    ELSE IF Includes(error.message, <<"timed", "out">>) THEN MsgTimedOutShown
    ELSE IF Includes(error.message, <<"required", "fields">>) THEN MsgRowsMissingFields
    ELSE error.message

Emit(log, by, percents) ==
    log \o [k \in 1..Len(percents) |-> [by |-> by, percent |-> percents[k]]]

\* progressCallback -> updateProgress: each value is logged for the ingestion
\* and shown; s is the pair [me, ui] of the ingestion and the uploader state
Report(s, percents) ==
    [me |-> [s.me EXCEPT !.events = Emit(@, "parseCSV", percents)],
     ui |-> IF percents = <<>> THEN s.ui
            ELSE [s.ui EXCEPT !.progress = percents[Len(percents)]]]

\* a variant that hands the data on without reporting 100
FulfilRaceSilent(s, loanData) ==
    [me |-> [s.me EXCEPT !.race   = [state |-> "fulfilled", error |-> NoError],
                         !.loaded = "scheduled"],
     ui |-> s.ui]

\* the try block after `await Promise.race(...)` returned loanData
FulfilRace(s, loanData) ==
    IF Len(loanData) > 0
    THEN [me |-> [s.me EXCEPT !.race   = [state |-> "fulfilled", error |-> NoError],
                              !.events = Emit(@, "processFile", <<100>>),
                              !.loaded = "scheduled"],
          ui |-> [s.ui EXCEPT !.progress = 100]]
    ELSE [me |-> [s.me EXCEPT !.race     = [state |-> "fulfilled", error |-> NoError],
                              !.events   = Emit(@, "processFile", <<0>>),
                              !.reported = MsgNoValidData],
          ui |-> [s.ui EXCEPT !.isLoading = FALSE, !.progress = 0,
                              !.validationError = MsgNoValidData]]

\* the catch block
RejectRace(s, error) ==
    [me |-> [s.me EXCEPT !.race     = [state |-> "rejected", error |-> error],
                         !.events   = Emit(@, "processFile", <<0>>),
                         !.reported = ErrorMessageFor(error)],
     ui |-> [s.ui EXCEPT !.isLoading = FALSE, !.progress = 0,
                         !.validationError = ErrorMessageFor(error)]]

\* a variant that drops the outcome once the race is over
SettleWhileAwaited(s, state, value, error) ==
    LET done == [s EXCEPT !.me.pc = "settled",
                          !.me.promise = [state |-> state, value |-> value,
                                          error |-> error]]
    IN  IF s.me.race.state # "pending" THEN [s EXCEPT !.me.pc = "settled"]
        ELSE IF state = "resolved" THEN FulfilRace(done, value)
        ELSE RejectRace(done, error)

\* resolve / reject of parseCSV's promise, and the reaction of the race that
\* processFile awaits (a race already settled ignores it)
Settle(s, state, value, error) ==
    LET done == [s EXCEPT !.me.pc = "settled",
                          !.me.promise = [state |-> state, value |-> value,
                                          error |-> error]]
    IN  IF s.me.race.state # "pending" THEN done
        ELSE IF state = "resolved" THEN FulfilRace(done, value)
        ELSE RejectRace(done, error)

(***************************************************************************)
(* The pipeline: uploader, parseCSV calls, timers and the store.           *)
(***************************************************************************)
MaxIngestions == 2

BigRows == 202

Ingestions == 1..MaxIngestions

NoUpload == [id |-> Str(<<>>), file_name |-> <<>>, record_count |-> 0]

NoIngestion ==
    [pc |-> "none", file |-> [name |-> <<>>, lines |-> <<>>],
     loans |-> <<>>, invalidRows |-> 0, fileUpload |-> NoUpload,
     batchIndex |-> 0, processedCount |-> 0,
     promise |-> [state |-> "none", value |-> <<>>, error |-> NoError],
     timer |-> "unset", race |-> [state |-> "none", error |-> NoError],
     loaded |-> "no", events |-> <<>>, reported |-> NoMessage]

\* the files a user hands to the uploader
SmallFile ==
    MakeFile(<<"user_wallet", "loan_amount", "loan_term", "loan_due_date",
               "loan_repaid_amount">>,
             <<"good", "noWallet", "ten", "blank">>)

NoHeaderFile == MakeFile(<<"notes", "loan_repaid_amount">>, <<"good">>)

NoWalletFile == MakeFile(<<"user_wallet", "loan_amount">>, <<"noWallet", "blankWallet">>)

BigFile ==
    MakeFile(<<"user_wallet", "loan_amount">>,
             [r \in 1..BigRows |-> IF r = 2 THEN "noWallet" ELSE "good"])

TextFile == [SmallFile EXCEPT !.name = <<"l","o","a","n","s",".","t","x","t">>]

\* a header line and no line break after it
HeaderOnlyFile == MakeFile(<<"user_wallet", "loan_amount">>, <<>>)

SmallFiles == {SmallFile, NoHeaderFile, NoWalletFile, HeaderOnlyFile, TextFile}

\* a user uploads several small files, or one file that may be large
Users ==
    {[files |-> "small", uploads |-> MaxIngestions, timeZone |-> "utcOrWest"],
     [files |-> "any", uploads |-> 1, timeZone |-> "east"]}

\* ParsePhase tabulated over the files at hand, so that a file is parsed once
RECURSIVE Tabulate(_)
Tabulate(S) ==
    IF S = {} THEN [x \in {} |-> x]
    ELSE LET x == CHOOSE y \in S : TRUE
         IN  (x :> ParsePhase(x[1], x[2])) @@ Tabulate(S \ {x})

parsed == Tabulate((SmallFiles \cup {BigFile}) \X TimeZones)

FilesOf(u) == IF u.files = "small" THEN SmallFiles ELSE SmallFiles \cup {BigFile}

\* a variant that sends the file name only
InsertRequestNameOnly(i, fileName, recordCount) ==
    [ing |-> i, table |-> "file_uploads", batch |-> 0, payload |-> <<>>,
     fileName |-> fileName, recordCount |-> 0,
     outcome |-> "sent", returned |-> FALSE, data |-> NoUpload]

InsertRequest(i, fileName, recordCount) ==
    [ing |-> i, table |-> "file_uploads", batch |-> 0, payload |-> <<>>,
     fileName |-> fileName, recordCount |-> recordCount,
     outcome |-> "sent", returned |-> FALSE, data |-> NoUpload]

UpsertRequest(i, b, batch) ==
    [ing |-> i, table |-> "loans", batch |-> b, payload |-> batch,
     fileName |-> <<>>, recordCount |-> 0,
     outcome |-> "sent", returned |-> FALSE, data |-> NoUpload]

Init ==
    /\ user \in Users
    /\ calls = 0
    /\ ing = [i \in Ingestions |-> NoIngestion]
    /\ ui = [isLoading |-> FALSE, fileName |-> <<>>, progress |-> 0,
             validationError |-> NoMessage]
    /\ requests = <<>>
    /\ store = [file_uploads |-> <<>>, loans |-> {}]
    /\ hdrField = "version" /\ hdrText = <<"v">> /\ hdrResult = "pending"
    /\ parseFile = EmptyTextFile /\ parseTz = "utcOrWest"
    /\ parseOut = [settled |-> "pending"]
    /\ IdleCalc

\* processFile up to `await Promise.race(...)`
processFile(f) ==
    LET i == calls + 1
    IN  /\ calls < user.uploads
        /\ calls' = i
        /\ IF ~EndsWithCsv(f.name)
           THEN /\ ing' = [ing EXCEPT ![i] = [@ EXCEPT !.pc = "refused", !.file = f]]
                /\ UNCHANGED ui
           ELSE /\ ing' = [ing EXCEPT ![i] =
                            [@ EXCEPT !.pc = "reading", !.file = f,
                                      !.timer = "armed",
                                      !.promise.state = "pending",
                                      !.race.state = "pending",
                                      !.events = Emit(@, "processFile", <<5>>)]]
                /\ ui' = [ui EXCEPT !.validationError = NoMessage,
                                    !.isLoading = TRUE,
                                    !.fileName = f.name,
                                    !.progress = 5]
        /\ UNCHANGED <<user, requests, store>>

\* the hidden file input is disabled while isLoading
HandleFileInputChange ==
    \E f \in FilesOf(user) : ~ui.isLoading /\ processFile(f)

HandleDrop ==
    \E f \in FilesOf(user) : processFile(f)

\* the `Try Again` button, shown while there is a validation error
ResetState ==
    /\ ui.validationError # NoMessage
    /\ ~ui.isLoading
    /\ ui' = [isLoading |-> FALSE, fileName |-> <<>>, progress |-> 0,
              validationError |-> NoMessage]
    /\ UNCHANGED <<user, calls, ing, requests, store>>

\* reader.onload up to the first await, or to a reject
ReaderOnLoad(i) ==
    /\ ing[i].pc = "reading"
    /\ LET out == parsed[<<ing[i].file, user.timeZone>>]
           s   == Report([me |-> ing[i], ui |-> ui], out.percents)
       IN  IF out.settled = "rejected"
           THEN LET t == Settle(s, "rejected", <<>>, out.error)
                IN  /\ ing' = [ing EXCEPT ![i] = t.me]
                    /\ ui' = t.ui
                    /\ UNCHANGED requests
           ELSE /\ ing' = [ing EXCEPT ![i] =
                            [s.me EXCEPT !.pc = "insert", !.loans = out.loans,
                                         !.invalidRows = out.invalidRows]]
                /\ ui' = s.ui
                /\ requests' = Append(requests,
                        InsertRequest(i, ing[i].file.name, Len(out.loans)))
    /\ UNCHANGED <<user, calls, store>>

\* reader.onerror: reject with the reader's event
ReaderOnError(i) ==
    /\ ing[i].pc = "reading"
    /\ LET t == Settle([me |-> ing[i], ui |-> ui], "rejected", <<>>,
                       [isError |-> FALSE, message |-> <<"ProgressEvent">>, origin |-> 0])
       IN  ing' = [ing EXCEPT ![i] = t.me] /\ ui' = t.ui
    /\ UNCHANGED <<user, calls, requests, store>>

\* the store carries out a request
BackendCommit(id) ==
    /\ requests[id].outcome = "sent"
    /\ IF requests[id].table = "file_uploads"
       THEN LET row == NewUploadRow(store.file_uploads, requests[id].fileName,
                                    requests[id].recordCount)
            IN  /\ store' = [store EXCEPT !.file_uploads = Append(@, row)]
                /\ requests' = [requests EXCEPT ![id].outcome = "ok", ![id].data = row]
       ELSE /\ store' = [store EXCEPT !.loans = Upsert(@, requests[id].payload)]
            /\ requests' = [requests EXCEPT ![id].outcome = "ok"]
    /\ UNCHANGED <<user, calls, ing, ui>>

\* the store refuses a request ({error}), or the call throws
BackendFail(id) ==
    /\ requests[id].outcome = "sent"
    /\ \E how \in {"error", "thrown"} :
          requests' = [requests EXCEPT ![id].outcome = how]
    /\ UNCHANGED <<user, calls, ing, ui, store>>

Answered(i, table) ==
    {id \in 1..Len(requests) :
        /\ requests[id].ing = i /\ requests[id].table = table
        /\ ~requests[id].returned /\ requests[id].outcome # "sent"}

\* a variant that sends a batch together with the one after it
IssueBatchPair(reqs, i, rows, b) ==
    IF b < BatchCount(Len(rows))
    THEN reqs \o <<UpsertRequest(i, b, BatchOf(rows, b)),
                   UpsertRequest(i, b + 1, BatchOf(rows, b + 1))>>
    ELSE Append(reqs, UpsertRequest(i, b, BatchOf(rows, b)))

\* supabase.from('loans').upsert(batch, ...): batch b of the rows is sent
IssueBatch(reqs, i, rows, b) == Append(reqs, UpsertRequest(i, b, BatchOf(rows, b)))

\* parseCSV after `await storeFileUpload(...)`
InsertReturns(i) ==
    /\ ing[i].pc = "insert"
    /\ \E id \in Answered(i, "file_uploads") :
        LET back == [requests EXCEPT ![id].returned = TRUE]
        IN  IF requests[id].outcome # "ok"
            THEN LET t == Settle([me |-> ing[i], ui |-> ui], "rejected", <<>>,
                                 FailureOf(requests[id].outcome, id))
                 IN  /\ ing' = [ing EXCEPT ![i] = t.me]
                     /\ ui' = t.ui
                     /\ requests' = back
            ELSE LET s == Report([me |-> ing[i], ui |-> ui], <<60>>)
                     rows == loansToUpsert(ing[i].loans, requests[id].data.id)
                 IN  /\ ing' = [ing EXCEPT ![i] =
                                 [s.me EXCEPT !.pc = "upsert",
                                              !.fileUpload = requests[id].data,
                                              !.batchIndex = 1,
                                              !.processedCount = 0]]
                     /\ ui' = s.ui
                     /\ requests' = IssueBatch(back, i, rows, 1)
    /\ UNCHANGED <<user, calls, store>>

\* storeLoansInDatabase after `await supabase.from('loans').upsert(batch)`,
\* and parseCSV after `await storeLoansInDatabase(...)` once the loop ends
UpsertReturns(i) ==
    /\ ing[i].pc = "upsert"
    /\ \E id \in Answered(i, "loans") :
        LET back == [requests EXCEPT ![id].returned = TRUE, ![id].payload = <<>>]
            rows == loansToUpsert(ing[i].loans, ing[i].fileUpload.id)
            processedCount == ing[i].processedCount + Len(requests[id].payload)
            percent == BatchPercent(processedCount, Len(rows))
        IN  IF requests[id].outcome # "ok"
            THEN LET t == Settle([me |-> ing[i], ui |-> ui], "rejected", <<>>,
                                 FailureOf(requests[id].outcome, id))
                 IN  /\ ing' = [ing EXCEPT ![i] = t.me]
                     /\ ui' = t.ui
                     /\ requests' = back
            ELSE IF ing[i].batchIndex < BatchCount(Len(rows))
            THEN LET s == Report([me |-> ing[i], ui |-> ui], <<percent>>)
                 IN  /\ ing' = [ing EXCEPT ![i] =
                                 [s.me EXCEPT !.batchIndex = @ + 1,
                                              !.processedCount = processedCount]]
                     /\ ui' = s.ui
                     /\ requests' = IssueBatch(back, i, rows, ing[i].batchIndex + 1)
            ELSE LET s == Report([me |-> [ing[i] EXCEPT !.processedCount = processedCount],
                                  ui |-> ui], <<percent, 95>>)
                     t == Settle(s, "resolved", rows, NoError)
                 IN  /\ ing' = [ing EXCEPT ![i] = t.me]
                     /\ ui' = t.ui
                     /\ requests' = back
    /\ UNCHANGED <<user, calls, store>>

\* the 30 s timer of processFile's timeoutPromise; once the race is settled
\* its reject changes nothing, so only a firing that wins the race is a step
TimerFires(i) ==
    /\ ing[i].timer = "armed"
    /\ ing[i].race.state = "pending"
    /\ LET t == RejectRace([me |-> [ing[i] EXCEPT !.timer = "fired"], ui |-> ui],
                           ErrorOf(MsgTimeout))
       IN  ing' = [ing EXCEPT ![i] = t.me] /\ ui' = t.ui
    /\ UNCHANGED <<user, calls, requests, store>>

\* setTimeout(() => onDataLoaded(loanData), 500)
DataLoaded(i) ==
    /\ ing[i].loaded = "scheduled"
    /\ ing' = [ing EXCEPT ![i].loaded = "delivered"]
    /\ UNCHANGED <<user, calls, ui, requests, store>>

Next ==
    \/ (HandleFileInputChange /\ UNCHANGED <<hdrVars, parseVars, calcVars>>)
    \/ (HandleDrop /\ UNCHANGED <<hdrVars, parseVars, calcVars>>)
    \/ (ResetState /\ UNCHANGED <<hdrVars, parseVars, calcVars>>)
    \/ \E i \in Ingestions :
        \/ (ReaderOnLoad(i) /\ UNCHANGED <<hdrVars, parseVars, calcVars>>)
        \/ (ReaderOnError(i) /\ UNCHANGED <<hdrVars, parseVars, calcVars>>)
        \/ (InsertReturns(i) /\ UNCHANGED <<hdrVars, parseVars, calcVars>>)
        \/ (UpsertReturns(i) /\ UNCHANGED <<hdrVars, parseVars, calcVars>>)
        \/ (TimerFires(i) /\ UNCHANGED <<hdrVars, parseVars, calcVars>>)
        \/ (DataLoaded(i) /\ UNCHANGED <<hdrVars, parseVars, calcVars>>)
    \/ \E id \in 1..Len(requests) :
        \/ (BackendCommit(id) /\ UNCHANGED <<hdrVars, parseVars, calcVars>>)
        \/ (BackendFail(id) /\ UNCHANGED <<hdrVars, parseVars, calcVars>>)

(***************************************************************************)
(* The synchronous part of parseCSV as a function of the file.             *)
(***************************************************************************)
RowKinds == {"good", "noWallet", "blankWallet", "garbage", "badDate", "blank", "short",
             "secondEmpty", "twins"}

\* the required columns present, in the order of requiredFields, followed by
\* an optional column and an unrecognized one; a header that names the
\* wallet twice, and one that names the amount and the due date twice
ColumnShapes ==
    { SelectSeq(requiredFields, LAMBDA f : f \in S) \o <<"loan_repaid_amount", "notes">> :
        S \in SUBSET Range(requiredFields) }
    \cup { <<"user_wallet", "loan_amount", "user_wallet", "is_defaulted">>,
           <<"user_wallet", "loan_amount", "loan_due_date", "loan_amount", "loan_due_date">> }

KindSeqs(n) == UNION { [1..k -> RowKinds] : k \in 0..n }

ParseFiles ==
    { MakeFile(columns, kinds) : columns \in ColumnShapes, kinds \in KindSeqs(MaxRows) }
    \cup { EmptyTextFile }

\* the pipeline's variables while only a function is exercised
IdlePipeline ==
    /\ user = [files |-> "small", uploads |-> 0, timeZone |-> "utcOrWest"]
    /\ calls = 0
    /\ ing = <<>>
    /\ ui = [isLoading |-> FALSE]
    /\ requests = <<>>
    /\ store = [file_uploads |-> <<>>, loans |-> {}]

InitParse ==
    /\ parseFile \in ParseFiles
    /\ parseTz \in TimeZones
    /\ parseOut = [settled |-> "pending"]
    /\ hdrField = "version"
    /\ hdrText = <<"v">>
    /\ hdrResult = "pending"
    /\ IdlePipeline
    /\ IdleCalc

RunParse ==
    /\ parseOut.settled = "pending"
    /\ parseOut' = ParsePhase(parseFile, parseTz)
    /\ UNCHANGED <<parseFile, parseTz>>
    /\ UNCHANGED <<hdrVars, pipeVars, calcVars>>

\* Index: handleDataLoaded(data) -> setLoanData(data), once the call that got
\* past validation has stored its records and resolved with them
handleDataLoaded ==
    /\ parseOut.settled = "storing"
    /\ data = <<>>
    /\ data' = [k \in 1..Len(parseOut.loans) |-> LoanDataOf(parseOut.loans[k], parseTz)]
    /\ UNCHANGED <<dashboard, expiredLoans>>
    /\ UNCHANGED <<hdrVars, parseVars, pipeVars>>

NextParse == RunParse \/ handleDataLoaded \/ calculateAllMetrics \/ RenderUpcomingLoans

(***************************************************************************)
(* Spellings handed to the resolver: every listed synonym, written as      *)
(* listed, in upper case, hyphenated, padded with blanks, or with doubled  *)
(* separators.                                                             *)
(***************************************************************************)
UpperOf(c) == IF c \in Letters THEN CHOOSE u \in UpperLetters : LowerOf[u] = c ELSE c

Spellings == {"listed", "upper", "hyphen", "padded", "doubled"}

Respell(s, how) ==
    CASE how = "listed"  -> s
      [] how = "upper"   -> [i \in 1..Len(s) |-> UpperOf(s[i])]
      [] how = "hyphen"  -> [i \in 1..Len(s) |-> IF IsSeparator(s[i]) THEN "-" ELSE s[i]]
      [] how = "padded"  -> <<" ">> \o s \o <<" ", " ">>
      [] how = "doubled" -> IF \E i \in 1..Len(s) : IsSeparator(s[i])
                            THEN LET i == CHOOSE i \in 1..Len(s) : IsSeparator(s[i])
                                 IN  SubSeq(s, 1, i) \o <<" ">> \o SubSeq(s, i + 1, Len(s))
                            ELSE s

InitHdr ==
    /\ hdrField \in DOMAIN COLUMN_MAPPINGS
    /\ \E k \in 1..Len(COLUMN_MAPPINGS[hdrField]) : \E how \in Spellings :
          hdrText = Respell(COLUMN_MAPPINGS[hdrField][k], how)
    /\ hdrResult = "pending"
    /\ parseFile = EmptyTextFile
    /\ parseTz = "utcOrWest"
    /\ parseOut = [settled |-> "pending"]
    /\ IdlePipeline
    /\ IdleCalc

ResolveHeader ==
    /\ hdrResult = "pending"
    /\ hdrResult' = findStandardFieldName(hdrText)
    /\ UNCHANGED <<hdrField, hdrText>>
    /\ UNCHANGED <<parseVars, pipeVars, calcVars>>

NextHdr == ResolveHeader

vars == <<hdrVars, parseVars, pipeVars, calcVars>>

SpecHdr == InitHdr /\ [][NextHdr]_vars

SpecParse == InitParse /\ [][NextParse]_vars

Spec == Init /\ [][Next]_vars

\* the file read completes, every call to the store returns, and a
\* continuation whose await has been answered runs
Fairness ==
    /\ WF_vars(\E i \in Ingestions :
                  (ReaderOnLoad(i) \/ ReaderOnError(i) \/ InsertReturns(i) \/ UpsertReturns(i))
                  /\ UNCHANGED <<hdrVars, parseVars, calcVars>>)
    /\ WF_vars(\E id \in 1..Len(requests) :
                  (BackendCommit(id) \/ BackendFail(id))
                  /\ UNCHANGED <<hdrVars, parseVars, calcVars>>)

SpecLive == Init /\ [][Next]_vars /\ Fairness

SpecCalc == InitCalc /\ [][NextCalc]_vars

(***************************************************************************)
(* Claims about the synchronous part of parseCSV (SpecParse).              *)
(***************************************************************************)
\* the line holds a comma or a character that is not white space
NonBlank(line) ==
    Len(line) > 1 \/ \E j \in 1..Len(line[1]) : line[1][j] \notin {" ", "\t"}

DataRowsOf(file) == {r \in 2..Len(file.lines) : NonBlank(file.lines[r])}

\* the wallet a data row resolves to under the file's header
ResolvedWallet(file, r) ==
    MapValues(BuildHeaderMap(file.lines[1]), file.lines[r]).user_wallet

RowsLackingWallet(file) ==
    LET headerMap == BuildHeaderMap(file.lines[1])
    IN  {r \in DataRowsOf(file) :
            MapValues(headerMap, file.lines[r]).user_wallet.s = <<>>}

\* the required fields some header cell resolves to
RequiredResolved(file) ==
    {findStandardFieldName(trim(file.lines[1][c])) : c \in 1..Len(file.lines[1])}
    \cap Range(requiredFields)

\* the k-th smallest member of a set of numbers
KthOf(S, k) == CHOOSE x \in S : Cardinality({y \in S : y < x}) = k - 1

ParseDone == parseOut.settled # "pending"

\* C1: with a header that is not fatal and N non-blank data rows of which k
\* lack a wallet, 0 < k < N, the rejected rows do not abort the call: it goes
\* on to store exactly the N-k rows that have a wallet, in file order, and
\* counts k invalid rows.
C1_PartialTolerance ==
    ParseDone =>
        LET rows    == DataRowsOf(parseFile)
            lacking == RowsLackingWallet(parseFile)
            N       == Cardinality(rows)
            k       == Cardinality(lacking)
            kept    == rows \ lacking
        IN  (RequiredResolved(parseFile) # {} /\ 0 < k /\ k < N) =>
                /\ parseOut.settled = "storing"
                /\ Len(parseOut.loans) = N - k
                /\ parseOut.invalidRows = k
                /\ \A j \in 1..Len(parseOut.loans) :
                      /\ parseOut.loans[j].user_wallet.s # <<>>
                      /\ parseOut.loans[j].user_wallet =
                            ResolvedWallet(parseFile, KthOf(kept, j))

C1_Witness ==
    /\ parseOut.settled = "storing"
    /\ parseOut.invalidRows = 2
    /\ Len(parseOut.loans) = 1
    /\ Cardinality(DataRowsOf(parseFile)) = 3

\* C3: a header that resolves none of the four required fields makes the call
\* reject before any data row is processed (no "validating" event, no row
\* counted); a header that resolves at least one of them is never the reason
\* of a rejection.
C3_HeaderFatalIffNoneResolved ==
    ParseDone =>
      LET resolved == RequiredResolved(parseFile)
      IN
        /\ resolved = {} =>
              /\ parseOut.settled = "rejected"
              /\ parseOut.stage \in {"read", "lines", "header"}
              /\ Len(parseFile.lines) >= 2 => parseOut.stage = "header"
              /\ parseOut.percents = <<10>>
              /\ parseOut.loans = <<>> /\ parseOut.invalidRows = 0
        /\ resolved # {} => parseOut.stage # "header"

C3_Witness ==
    /\ parseOut.settled = "rejected"
    /\ parseOut.stage = "header"
    /\ Cardinality(DataRowsOf(parseFile)) = 2

\* the header lacks exactly field f of the four required ones
MissingExactly(file, f) ==
    RequiredResolved(file) = Range(requiredFields) \ {f}

\* every data row of the file has a non-empty cell in each wallet column
EveryWalletCellFilled(file) ==
    \A r \in DataRowsOf(file) : \A c \in 1..Len(file.lines[1]) :
        findStandardFieldName(trim(file.lines[1][c])) = "user_wallet" =>
            c <= Len(file.lines[r]) /\ trim(file.lines[r][c]) # <<>>

ResolvedRepaid(file, r) ==
    MapValues(BuildHeaderMap(file.lines[1]), file.lines[r]).loan_repaid_amount

\* C20: the record built from a row has a null repaid amount only when the
\* row's repaid cell is empty or absent; a cell that parses to 0 gives the
\* repaid amount 0 in the record that goes on to be stored and returned.
C20_ZeroRepaidKept ==
    (ParseDone /\ parseOut.settled = "storing") =>
        LET kept == DataRowsOf(parseFile) \ RowsLackingWallet(parseFile)
        IN  \A j \in 1..Len(parseOut.loans) :
                LET cell == ResolvedRepaid(parseFile, KthOf(kept, j))
                IN  /\ parseOut.loans[j].loan_repaid_amount = Null =>
                          cell \in {Null, Undefined}
                    /\ cell = Num(0) => parseOut.loans[j].loan_repaid_amount = Num(0)
\* C5: every listed synonym of a canonical field, in any spelling, resolves
\* to that field.
C5_SynonymComplete ==
    hdrResult # "pending" => hdrResult = hdrField


(***************************************************************************)
(* Claims about the pipeline (Spec).                                       *)
(***************************************************************************)
HasWallet(row) == row.user_wallet.t = "string" /\ row.user_wallet.s # <<>>

\* the resolved wallet of every non-blank line after the header, in file order
WalletColumn(file) ==
    LET headerMap == BuildHeaderMap(file.lines[1])
        rows      == SelectSeq(SubSeq(file.lines, 2, Len(file.lines)), NonBlank)
    IN  [r \in 1..Len(rows) |-> MapValues(headerMap, rows[r]).user_wallet]

\* parseCSV has run its row loop over the file of ingestion i and the outcome
\* is at hand: it reported 20 before the loop, and has rejected since or
\* awaits the file_uploads insert
RowsDone(i) ==
    /\ ing[i].pc \in {"insert", "settled"}
    /\ ing[i].batchIndex = 0
    /\ \E k \in 1..Len(ing[i].events) :
          ing[i].events[k] = [by |-> "parseCSV", percent |-> 20]

\* C2: a data row is rejected exactly when its resolved wallet is empty (the
\* records kept are the rows with a wallet, in file order, the rows counted
\* invalid are the others, and a file with no row kept is refused with that
\* count), so that no record without a wallet is in the store, in a request
\* to the store or in what parseCSV resolves with, however many uploads ran.
C2_RejectedIffWalletEmpty ==
    /\ \A row \in store.loans : HasWallet(row)
    /\ \A id \in 1..Len(requests) : \A k \in 1..Len(requests[id].payload) :
          HasWallet(requests[id].payload[k])
    /\ \A i \in Ingestions :
          /\ \A k \in 1..Len(ing[i].promise.value) : HasWallet(ing[i].promise.value[k])
          /\ RowsDone(i) =>
                LET column == WalletColumn(ing[i].file)
                    kept   == SelectSeq(column, LAMBDA w : w.s # <<>>)
                    k      == Len(column) - Len(kept)
                IN  IF kept = <<>>
                    THEN /\ ing[i].loans = <<>>
                         /\ ing[i].promise.state = "rejected"
                         /\ ing[i].promise.error.message =
                               (IF k > 0 THEN MsgNoValidRows(k) ELSE MsgNoLoanData)
                    ELSE /\ [j \in 1..Len(ing[i].loans) |-> ing[i].loans[j].user_wallet] = kept
                         /\ ing[i].invalidRows = k

C2_Witness ==
    /\ calls = 2
    /\ \A i \in 1..2 :
          /\ ing[i].promise.state = "resolved"
          /\ ing[i].invalidRows > 0
          /\ Len(ing[i].promise.value) > 0
    /\ store.loans # {}

\* the percents that parseCSV handed to its progress callback in ingestion i
ParsePercents(i) ==
    LET ev == SelectSeq(ing[i].events, LAMBDA e : e.by = "parseCSV")
    IN  [k \in 1..Len(ev) |-> ev[k].percent]

\* C6: in every parseCSV call the percents handed to the progress callback
\* never decrease and lie between 0 and 100.
C6_ProgressMonotone ==
    \A i \in Ingestions :
        LET p == ParsePercents(i)
        IN  /\ \A k \in 1..Len(p) : p[k] \in 0..100
            /\ \A k \in 1..(Len(p) - 1) : p[k] <= p[k + 1]

C6_Witness ==
    \E i \in Ingestions :
        /\ ing[i].promise.state = "resolved"
        /\ ing[i].batchIndex = 3
        /\ LET p == ParsePercents(i)
           IN  /\ Len(p) > 20
               /\ p[1] = 10
               /\ p[Len(p)] = 95
               /\ \E k \in 1..Len(p) : p[k] \in 61..89

\* C7: an ingestion that processFile completes successfully (the race was won
\* by parseCSV's resolve) has 100 as the last progress value of that
\* ingestion, and its data is handed on.
C7_SuccessEndsAt100 ==
    \A i \in Ingestions :
        ing[i].race.state = "fulfilled" =>
            /\ ing[i].events[Len(ing[i].events)].percent = 100
            /\ ing[i].loaded # "no"
            /\ ing[i].promise.state = "resolved"

C7_Witness ==
    \E i \in Ingestions :
        /\ ing[i].race.state = "fulfilled"
        /\ ing[i].loaded = "delivered"
        /\ Len(ing[i].events) > 5

NaturalKeys(rows) == {NaturalKey(rows[k]) : k \in 1..Len(rows)}

\* the rows of batch b of ingestion i
BatchRows(i, b) == BatchOf(loansToUpsert(ing[i].loans, ing[i].fileUpload.id), b)

\* the requests of ingestion i to a table, in the order of issue
RequestsOf(i, table) ==
    SelectSeq([id \in 1..Len(requests) |-> id],
              LAMBDA id : requests[id].ing = i /\ requests[id].table = table)

\* what the store committed for ingestion i is in the store
WritesInPlace(i) ==
    \A id \in 1..Len(requests) :
        (requests[id].ing = i /\ requests[id].outcome = "ok") =>
            IF requests[id].table = "file_uploads"
            THEN \E k \in 1..Len(store.file_uploads) :
                    store.file_uploads[k] = requests[id].data
            ELSE NaturalKeys(BatchRows(i, requests[id].batch))
                    \subseteq {NaturalKey(row) : row \in store.loans}

\* C8: once the 30 s timer has fired before parseCSV settled, whatever the
\* stage, processFile has reported a failure whose message contains
\* 'timed out', onDataLoaded is not invoked for that ingestion, and what the
\* store committed for it stays in the store.
C8_TimeoutReported ==
    \A i \in Ingestions :
        ing[i].timer = "fired" =>
            /\ ing[i].race.state = "rejected"
            /\ ing[i].race.error = ErrorOf(MsgTimeout)
            /\ Includes(ing[i].reported, <<"timed", "out">>)
            /\ ing[i].loaded = "no"
            /\ WritesInPlace(i)

C8_Witness ==
    \E i \in Ingestions :
        /\ ing[i].timer = "fired"
        /\ ing[i].promise.state = "resolved"
        /\ ing[i].batchIndex = 3
        /\ Cardinality(store.loans) > batchSize

\* C9: the batch upserts of an ingestion are issued one at a time, as batch
\* 1, 2, 3, ... of its rows, the next one only after the one before it came
\* back without error; after a batch failed none is issued, the batches
\* before it stay committed and parseCSV rejects with that batch's error.
C9_BatchesSequential ==
    \A i \in Ingestions :
        LET ids == RequestsOf(i, "loans")
        IN  /\ Cardinality({k \in 1..Len(ids) : ~requests[ids[k]].returned}) <= 1
            /\ \A k \in 1..Len(ids) :
                  /\ requests[ids[k]].batch = k
                  /\ requests[ids[k]].payload # <<>> =>
                        requests[ids[k]].payload = BatchRows(i, k)
                  /\ k < Len(ids) =>
                        requests[ids[k]].returned /\ requests[ids[k]].outcome = "ok"
                  /\ (requests[ids[k]].returned /\ requests[ids[k]].outcome # "ok") =>
                        /\ k = Len(ids)
                        /\ ing[i].promise.state = "rejected"
                        /\ ing[i].promise.error =
                              FailureOf(requests[ids[k]].outcome, ids[k])
                        /\ WritesInPlace(i)

C9_Witness ==
    \E i \in Ingestions :
        LET ids == RequestsOf(i, "loans")
        IN  /\ Len(ids) = 2
            /\ requests[ids[2]].returned
            /\ requests[ids[2]].outcome = "error"
            /\ ing[i].promise.state = "rejected"
            /\ Cardinality(store.loans) = batchSize

\* C10: in an ingestion the file_uploads insert is issued once, and has come
\* back without error before any loans upsert is issued; if it fails,
\* parseCSV rejects with its error and issues no upsert; every record sent to
\* the store, stored, or resolved with carries the id of that insert's row.
C10_UploadRowFirst ==
    /\ \A row \in store.loans :
          \E k \in 1..Len(store.file_uploads) :
              store.file_uploads[k].id = row.file_upload_id
    /\ \A i \in Ingestions :
          LET inserts == RequestsOf(i, "file_uploads")
              upserts == RequestsOf(i, "loans")
          IN  /\ Len(inserts) <= 1
              /\ upserts # <<>> =>
                    /\ Len(inserts) = 1
                    /\ inserts[1] < upserts[1]
                    /\ requests[inserts[1]].returned
                    /\ requests[inserts[1]].outcome = "ok"
              /\ \A u \in 1..Len(upserts) : \A k \in 1..Len(requests[upserts[u]].payload) :
                    requests[upserts[u]].payload[k].file_upload_id =
                        requests[inserts[1]].data.id
              /\ \A k \in 1..Len(ing[i].promise.value) :
                    ing[i].promise.value[k].file_upload_id = requests[inserts[1]].data.id
              /\ ing[i].promise.state = "resolved" =>
                    Len(ing[i].promise.value) = Len(ing[i].loans)
              /\ (inserts # <<>> /\ requests[inserts[1]].returned
                     /\ requests[inserts[1]].outcome # "ok") =>
                    /\ upserts = <<>>
                    /\ ing[i].promise.state = "rejected"
                    /\ ing[i].promise.error =
                          FailureOf(requests[inserts[1]].outcome, inserts[1])

C10_Witness ==
    /\ calls = 2
    /\ ing[1].promise.state = "resolved"
    /\ ing[2].promise.state = "resolved"
    /\ ing[1].fileUpload.id # ing[2].fileUpload.id
    /\ \E row \in store.loans : row.file_upload_id = ing[2].fileUpload.id

\* the natural keys of the loans in the store
StoredKeys == {NaturalKey(row) : row \in store.loans}

FailsValidation(file) ==
    \/ Len(file.lines) < 2
    \/ RequiredResolved(file) = {}
    \/ DataRowsOf(file) \subseteq RowsLackingWallet(file)

\* the files at hand that fail one
InvalidFiles == {f \in SmallFiles \cup {BigFile} : FailsValidation(f)}

ValidationMessages ==
    {MsgEmptyFile, MsgMissingAll, MsgNoLoanData}
    \cup {MsgNoValidRows(k) : k \in 1..BigRows}

\* C12: once parseCSV has read a file that fails a file-level validation
\* (fewer than 2 lines, all required headers unmatched, or zero valid rows),
\* its promise is rejected, with the validation's error unless the reader
\* failed, and that call has issued no file_uploads insert and no loans
\* upsert; when no other call ran, the store is as it was.
C12_ValidationFailureWritesNothing ==
    \A i \in Ingestions :
        (ing[i].pc \notin {"none", "refused", "reading"}
            /\ ing[i].file \in InvalidFiles) =>
            /\ ing[i].promise.state = "rejected"
            /\ ing[i].promise.error.isError =>
                  ing[i].promise.error.message \in ValidationMessages
            /\ \A id \in 1..Len(requests) : requests[id].ing # i
            /\ calls = 1 => store = [file_uploads |-> <<>>, loans |-> {}]

C12_Witness ==
    /\ calls = 2
    /\ ing[1].file \in InvalidFiles
    /\ ing[1].promise.error.message = MsgEmptyFile
    /\ ing[2].promise.error.message \in {MsgMissingAll, MsgNoValidRows(2)}
    /\ requests = <<>>

\* no parseCSV call is under way
Quiescent == \A i \in Ingestions : ing[i].pc \in {"none", "refused", "settled"}

Succeeded == {i \in Ingestions : ing[i].promise.state = "resolved"}

\* the ingestions whose file_uploads insert the store committed
InsertCommitted ==
    {i \in Ingestions : \E id \in 1..Len(requests) :
        /\ requests[id].ing = i /\ requests[id].table = "file_uploads"
        /\ requests[id].outcome = "ok"}

\* the rows of file_uploads that hold the name and record count of ingestion i
UploadRowsOf(i) ==
    {k \in 1..Len(store.file_uploads) :
        /\ store.file_uploads[k].file_name = ing[i].file.name
        /\ store.file_uploads[k].record_count = Len(ing[i].loans)
        /\ \E id \in 1..Len(requests) :
              requests[id].ing = i /\ requests[id].data = store.file_uploads[k]}

\* C13 as stated: when every ingestion has ended, file_uploads has as many
\* rows as ingestions completed successfully, none left by a failed one.
C13_OneUploadRowPerSuccess ==
    Quiescent => Len(store.file_uploads) = Cardinality(Succeeded)

\* C13: file_uploads has one row per ingestion whose insert the store
\* committed, with the ingestion's file name and the number of its valid
\* records: exactly one for each ingestion that completed successfully, and
\* also one for an ingestion that failed or timed out after that insert.
C13_OneUploadRowPerCommittedInsert ==
    /\ Len(store.file_uploads) = Cardinality(InsertCommitted)
    /\ Succeeded \subseteq InsertCommitted
    /\ \A i \in InsertCommitted :
          /\ Cardinality(UploadRowsOf(i)) = 1
          /\ Len(ing[i].loans) > 0
    /\ \A i \in Succeeded :
          /\ UploadRowsOf(i) = {k \in 1..Len(store.file_uploads) :
                                  store.file_uploads[k] = ing[i].fileUpload}
          /\ ing[i].fileUpload.record_count = Len(ing[i].promise.value)
    /\ \A k, l \in 1..Len(store.file_uploads) :
          store.file_uploads[k].id = store.file_uploads[l].id => k = l

C13_Witness ==
    /\ Quiescent
    /\ calls = 2
    /\ ing[1].promise.state = "rejected"
    /\ ing[1].promise.error.origin > 0
    /\ ing[2].promise.state = "resolved"
    /\ Len(store.file_uploads) = 2
    /\ store.file_uploads[2].record_count = Len(ing[2].promise.value)

(***************************************************************************)
(* Claims about the metrics engine (SpecCalc).                             *)
(***************************************************************************)
\* is_defaulted is true or default_loan_date is a non-empty string
MarkedDefaulted(loan) ==
    \/ loan.is_defaulted.t = "boolean" /\ loan.is_defaulted.n = 1
    \/ loan.default_loan_date.t = "string" /\ loan.default_loan_date.s # <<>>

\* repaid_amount is a number and at least x
RepaidAtLeast(loan, x) ==
    loan.loan_repaid_amount.t = "number" /\ loan.loan_repaid_amount.n >= x

\* the positions of data that calculateLoanMetrics counts in the tier of a face value
TierOf(face) == {k \in 1..Len(data) : Abs(data[k].loan_amount.n - face) < 10}

DefaultedIn(S) == {k \in S : MarkedDefaulted(data[k])}

\* every loan listed in a group of the sequence groups
MembersOf(groups) ==
    UNION { Range(groups[g].loans) : g \in 1..Len(groups) }

\* C15: a loan with is_defaulted true or with a non-empty default_loan_date is
\* counted as defaulted, in the total and in its tier, whatever its repaid
\* amount and due date; the repaid and in-progress counters count loans that
\* are not defaulted only; and no defaulted loan is in a due-date group (of
\* either revision) or among the expired loans.
C15_DefaultedTakesPrecedence ==
    /\ dashboard.state = "set" =>
        LET all == 1..Len(data)
            m   == dashboard.metrics
        IN  /\ m.totalDefaulted = Cardinality(DefaultedIn(all))
            /\ m.totalInProgress <= Cardinality(all \ DefaultedIn(all))
            /\ \A tier \in {<<m.oneDollarLoans, TierOf(oneDollar)>>,
                            <<m.tenDollarLoans, TierOf(tenDollar)>>} :
                  /\ tier[1].defaulted = Cardinality(DefaultedIn(tier[2]))
                  /\ tier[1].repaid + tier[1].inProgress
                        <= Cardinality(tier[2] \ DefaultedIn(tier[2]))
            /\ \A loan \in MembersOf(dashboard.dueDateGroups) : ~MarkedDefaulted(loan)
            /\ \A loan \in MembersOf(dashboard.dueDateGroups010) : ~MarkedDefaulted(loan)
    /\ expiredLoans.state = "set" =>
        \A loan \in Range(expiredLoans.loans) : ~MarkedDefaulted(loan)

C15_Witness ==
    /\ expiredLoans.state = "set"
    /\ Len(data) = 2
    /\ data[1] = Loan(tenDollar, Num(tenDollarThreshold), DateAt(72), TRUE, Null)
    /\ data[2] = Loan(tenDollar, Null, DateAt(-24), FALSE, SomeDate)
    /\ dashboard.metrics.totalDefaulted = 2
    /\ dashboard.metrics.tenDollarLoans =
          [defaulted |-> 2, repaid |-> 0, inProgress |-> 0, total |-> 2]
    /\ expiredLoans.loans = <<>>

\* how often a loan occurs in a sequence of loans
Occurrences(loans, loan) == Cardinality({k \in 1..Len(loans) : loans[k] = loan})

\* days until due: the number of days, rounded up, from today's midnight
DaysUntilDue(loan) ==
    CHOOSE d \in -2..40 :
        /\ HoursPerDay * (d - 1) < loan.loan_due_date.time
        /\ loan.loan_due_date.time <= HoursPerDay * d

\* group g holds the loans of data that are active and due within the horizon
HoldsWithin(group, active(_), horizon) ==
    \A loan \in Range(data) \cup Range(group.loans) :
        Occurrences(group.loans, loan) =
            IF active(loan) /\ DaysUntilDue(loan) <= horizon
            THEN Occurrences(data, loan) ELSE 0

NotFullyRepaid(loan) ==
    \/ loan.loan_repaid_amount.t \in {"null", "undefined"}
    \/ loan.loan_repaid_amount.n < loan.loan_amount.n

PastDue(loan) == loan.loan_due_date.valid /\ loan.loan_due_date.time < 0

\* the loans in some due-date group, of either revision
Grouped == MembersOf(dashboard.dueDateGroups) \cup MembersOf(dashboard.dueDateGroups010)

C18_TierCountersAddUp ==
    dashboard.state = "set" =>
        \A tier \in {dashboard.metrics.oneDollarLoans, dashboard.metrics.tenDollarLoans} :
            tier.defaulted + tier.repaid + tier.inProgress = tier.total

\* the repayment threshold of the tier of a loan of face value 1 or 10
ThresholdOf(loan) ==
    IF loan.loan_amount.n = oneDollar THEN oneDollarThreshold ELSE tenDollarThreshold

\* a loan of a tier that is not defaulted and not repaid up to its threshold
OpenTierLoan(loan) ==
    /\ loan.loan_amount.n \in {oneDollar, tenDollar}
    /\ ~MarkedDefaulted(loan)
    /\ ~RepaidAtLeast(loan, ThresholdOf(loan))

\* C19: groupLoansByDueDate and getExpiredLoans take a loan for fully repaid
\* only from its tier's threshold on: a tier loan that is not defaulted and
\* repaid below the threshold (at its face value, say) is in the groups of its
\* horizon when due within 30 days, and among the expired loans when past due.
C19_ThresholdDecidesActive ==
    /\ dashboard.state = "set" =>
          \A loan \in Range(data) :
              (OpenTierLoan(loan) /\ loan.loan_due_date.valid
                 /\ loan.loan_due_date.time > 0 /\ DaysUntilDue(loan) <= 30) =>
                  /\ loan \in MembersOf(dashboard.dueDateGroups)
                  /\ loan \in MembersOf(dashboard.dueDateGroups010)
    /\ expiredLoans.state = "set" =>
          \A loan \in Range(data) :
              (OpenTierLoan(loan) /\ PastDue(loan)) => loan \in Range(expiredLoans.loans)

(***************************************************************************)
(* Day counts.                                                             *)
(***************************************************************************)
\* two instants of the same local calendar day
SameCalendarDay(d1, d2) ==
    /\ d1.valid /\ d2.valid
    /\ d1.time \div HoursPerDay = d2.time \div HoursPerDay

\* the rows of every table UpcomingLoans can show
RowsShown ==
    UNION { Range(expiredLoans.groupTables[g]) : g \in DOMAIN expiredLoans.groupTables }
    \cup UNION { Range(expiredLoans.groupTables010[g]) :
                    g \in DOMAIN expiredLoans.groupTables010 }
    \cup Range(expiredLoans.table)

\* C21: day counts do not depend on time-of-day: two loans shown whose due
\* instants fall on the same calendar day get the same days-remaining from
\* getDaysRemaining, and the same days-until-due in groupLoansByDueDate.
C21_DayCountIgnoresTimeOfDay ==
    expiredLoans.state = "set" =>
        \A r1, r2 \in RowsShown :
            SameCalendarDay(r1.loan.loan_due_date, r2.loan.loan_due_date) =>
                /\ r1.daysRemaining = r2.daysRemaining
                /\ diffDays010(r1.loan) = diffDays010(r2.loan)
                /\ diffDays(r1.loan) = diffDays(r2.loan)

(***************************************************************************)
(* Records of a file on the dashboard.                                     *)
(***************************************************************************)
\* the rows of the file that give a record, in file order
KeptRows == DataRowsOf(parseFile) \ RowsLackingWallet(parseFile)

\* the due-date cell a data row resolves to under the file's header
ResolvedDueDate(file, r) ==
    MapValues(BuildHeaderMap(file.lines[1]), file.lines[r]).loan_due_date

\* the cell is missing (no such column, or the row ends before it), empty, or
\* a text that is no date
DueCellUnusable(cell) ==
    \/ cell \in {Undefined, Null}
    \/ cell.t = "string" /\ ~newDate(cell, parseTz).valid

\* the loans of the groups with a finite horizon, of either revision
FiniteBuckets ==
    MembersOf(dashboard.dueDateGroups)
    \cup UNION { Range(dashboard.dueDateGroups010[g].loans) : g \in 1..Len(groupDays) }

\* C22: a record built from a row whose due-date cell is missing, empty or
\* unparseable is never among the expired loans nor in a group of a finite
\* horizon (1, 5, 7, 10, 14, 30 days).
C22_UnsetDueDateNeverUrgent ==
    expiredLoans.state = "set" =>
        \A j \in 1..Len(data) :
            DueCellUnusable(ResolvedDueDate(parseFile, KthOf(KeptRows, j))) =>
                /\ data[j] \notin Range(expiredLoans.loans)
                /\ data[j] \notin FiniteBuckets

\* records of a row cut before its due date, of a row with an empty due date
\* and of a row with a text that is no date are on the dashboard, next to one
\* another
C22_Witness ==
    /\ expiredLoans.state = "set"
    /\ \E i, j, k \in 1..Len(data) :
          /\ ResolvedDueDate(parseFile, KthOf(KeptRows, i)) = Undefined
          /\ ResolvedDueDate(parseFile, KthOf(KeptRows, j)) = Null
          /\ ResolvedDueDate(parseFile, KthOf(KeptRows, k)).t = "string"
          /\ ~data[k].loan_due_date.valid
          /\ data[i].loan_due_date.time > 30 * HoursPerDay
          /\ data[j].loan_due_date.time > 30 * HoursPerDay

(***************************************************************************)
(* Batches.                                                                *)
(***************************************************************************)
\* the upserts of ingestion i that came back without error
StoredBatches(i) ==
    {id \in 1..Len(requests) :
        /\ requests[id].ing = i /\ requests[id].table = "loans"
        /\ requests[id].returned /\ requests[id].outcome = "ok"}

\* C23: the batches of an ingestion are consecutive slices of its valid
\* records in file order: a batch holds at most 100 records, exactly 100
\* unless it is the last, and starts right after the records of the batches
\* before it; when the ingestion resolves the batches have covered every
\* record once.
C23_BatchesPartitionRecords ==
    \A i \in Ingestions :
        LET ids   == RequestsOf(i, "loans")
            total == Len(ing[i].loans)
            done  == Cardinality(StoredBatches(i))
        IN  /\ Len(ids) <= BatchCount(total)
            /\ ing[i].pc = "upsert" =>
                  ing[i].processedCount = Min(done * batchSize, total)
            /\ \A k \in 1..Len(ids) :
                  requests[ids[k]].payload # <<>> =>
                      LET batch == requests[ids[k]].payload
                          rows  == loansToUpsert(ing[i].loans, ing[i].fileUpload.id)
                      IN  /\ Len(batch) <= batchSize
                          /\ k < BatchCount(total) => Len(batch) = batchSize
                          /\ k = BatchCount(total) => Len(batch) = total - (k - 1) * batchSize
                          /\ batch = SubSeq(rows, ing[i].processedCount + 1,
                                            ing[i].processedCount + Len(batch))
            /\ ing[i].promise.state = "resolved" =>
                  /\ Len(ids) = BatchCount(total)
                  /\ done = BatchCount(total)
                  /\ ing[i].processedCount = total

\* the last of three batches, a short one, is on its way
C23_Witness ==
    \E i \in Ingestions :
        LET ids == RequestsOf(i, "loans")
        IN  /\ Len(ids) = 3
            /\ Len(requests[ids[3]].payload) \in 1..(batchSize - 1)
            /\ ing[i].processedCount = 2 * batchSize

(***************************************************************************)
(* Tiers and counters.                                                     *)
(***************************************************************************)
\* the number of loans of the collection with a property
CountOf(P(_)) == Cardinality({k \in 1..Len(data) : P(data[k])})

\* C24: a loan is counted in a tier only when its loan_amount is exactly 1 or
\* exactly 10: the tier totals are the numbers of such loans, a loan of
\* another face value (1.005) is in totalLoans and in neither tier.
C24_TierByExactFaceValue ==
    dashboard.state = "set" =>
        /\ dashboard.metrics.totalLoans = Len(data)
        /\ dashboard.metrics.oneDollarLoans.total =
              CountOf(LAMBDA loan : loan.loan_amount.n = oneDollar)
        /\ dashboard.metrics.tenDollarLoans.total =
              CountOf(LAMBDA loan : loan.loan_amount.n = tenDollar)

(***************************************************************************)
(* Progress after a failure, and ingestions in flight.                     *)
(***************************************************************************)
\* C25: once processFile has reported a failure for an ingestion and reset
\* the progress to 0, that reset is the last progress event of the ingestion;
\* and while no later ingestion was started the progress shown stays 0.
C25_NoProgressAfterFailure ==
    \A i \in Ingestions :
        ing[i].reported # NoMessage =>
            /\ ing[i].events[Len(ing[i].events)] = [by |-> "processFile", percent |-> 0]
            /\ calls = i => ui.progress = 0

\* the parseCSV calls that have not settled
InFlight == {i \in Ingestions : ing[i].promise.state = "pending"}

\* C26: at most one ingestion is in flight: no parseCSV call is started while
\* an earlier one has not settled.
C26_OneIngestionInFlight == Cardinality(InFlight) <= 1

\* C27: the aggregate counters never fall below the sum of the tier counters:
\* totalInProgress >= oneDollarLoans.inProgress + tenDollarLoans.inProgress
\* and totalDefaulted >= oneDollarLoans.defaulted + tenDollarLoans.defaulted.
C27_AggregatesCoverTiers ==
    dashboard.state = "set" =>
        LET metrics == dashboard.metrics
        IN  /\ metrics.totalInProgress >=
                  metrics.oneDollarLoans.inProgress + metrics.tenDollarLoans.inProgress
            /\ metrics.totalDefaulted >=
                  metrics.oneDollarLoans.defaulted + metrics.tenDollarLoans.defaulted

(***************************************************************************)
(* The two views of the open loans.                                        *)
(***************************************************************************)
\* C28: every loan that is not defaulted, has a valid due date and a repaid
\* amount that is missing or below loan_amount is among the expired loans or
\* in at least one due-date group, the group past 30 days included; so is a
\* loan due exactly today.
C28_OpenLoanInSomeView ==
    expiredLoans.state = "set" =>
        \A loan \in Range(data) :
            (/\ ~DefaultedOrDated(loan)
             /\ loan.loan_due_date.valid
             /\ NotFullyRepaid(loan)) =>
                \/ loan \in Range(expiredLoans.loans)
                \/ loan \in MembersOf(dashboard.dueDateGroups010)

(***************************************************************************)
(* Header columns that resolve to the same field.                          *)
(***************************************************************************)
\* the columns of a header that resolve to a field
ColumnsOf(headerMap, f) == {c \in 1..Len(headerMap) : headerMap[c] = f}

Rightmost(S) == CHOOSE c \in S : \A b \in S : b <= c

\* the cell of a row in column c, trimmed; nothing where the row has ended
CellAt(line, c) == IF c <= Len(line) THEN trim(line[c]) ELSE <<>>

\* the record of a row when each field is read from the rightmost of the
\* columns Cols(headerMap, line, f)
RecordFromRightmost(headerMap, line, Cols(_, _, _)) ==
    InitOptional(FillDefaults(
        [f \in Fields |->
            IF Cols(headerMap, line, f) = {} THEN Undefined
            ELSE CoerceCell(f, CellAt(line, Rightmost(Cols(headerMap, line, f))))],
        parseTz))

\* the row's wallet, read that way, is not empty
WalletRead(headerMap, line, Cols(_, _, _)) ==
    /\ Cols(headerMap, line, "user_wallet") # {}
    /\ CellAt(line, Rightmost(Cols(headerMap, line, "user_wallet"))) # <<>>

\* parseCSV's outcome is that of reading every field from the rightmost of
\* the columns Cols(headerMap, line, f): the rows with a wallet give the
\* records, in file order, and the other rows are the rejected ones
RightmostWins(Cols(_, _, _)) ==
    (ParseDone /\ parseOut.stage \in {"rows", "store"}) =>
        LET headerMap == BuildHeaderMap(parseFile.lines[1])
            accepted  == {r \in DataRowsOf(parseFile) :
                            WalletRead(headerMap, parseFile.lines[r], Cols)}
        IN  /\ parseOut.invalidRows = Cardinality(DataRowsOf(parseFile) \ accepted)
            /\ parseOut.settled = "rejected" => accepted = {}
            /\ parseOut.settled = "storing" =>
                  /\ Len(parseOut.loans) = Cardinality(accepted)
                  /\ \A j \in 1..Len(parseOut.loans) :
                        parseOut.loans[j] =
                            RecordFromRightmost(headerMap,
                                parseFile.lines[KthOf(accepted, j)], Cols)

\* C29: when several header columns resolve to one field, each row takes the
\* field's value from the rightmost of them; a row whose rightmost wallet
\* column is empty is rejected, whatever an earlier wallet column holds.
C29_RightmostColumnWins ==
    RightmostWins(LAMBDA headerMap, line, f : ColumnsOf(headerMap, f))

\* C29 amended: each row takes the field's value from the rightmost of those
\* columns that the row has a cell for; a row whose cell there is empty is
\* rejected, whatever an earlier wallet column holds, and a row that ends
\* before the later column keeps the value of the earlier one.
C29_RightmostCellWins ==
    RightmostWins(LAMBDA headerMap, line, f :
        {c \in ColumnsOf(headerMap, f) : c <= Len(line)})

\* under a header with two wallet columns: a row with an empty second wallet
\* is rejected, a row with two wallets gives a record with the second, and a
\* row cut after the first wallet gives a record with the first
C29_Witness ==
    /\ parseOut.settled = "storing"
    /\ Len(parseFile.lines) = 4
    /\ Len(parseOut.loans) = 2
    /\ LET wallets == ColumnsOf(BuildHeaderMap(parseFile.lines[1]), "user_wallet")
           last    == Rightmost(wallets)
           first   == Rightmost(wallets \ {last})
           lines   == parseFile.lines
       IN  /\ Cardinality(wallets) = 2
           /\ CellAt(lines[2], first) # <<>> /\ Len(lines[2]) >= last
           /\ CellAt(lines[2], last) = <<>>
           /\ CellAt(lines[3], last) \notin {<<>>, CellAt(lines[3], first)}
           /\ Len(lines[4]) < last
           /\ parseOut.loans[1].user_wallet = Str(CellAt(lines[3], last))
           /\ parseOut.loans[2].user_wallet = Str(CellAt(lines[4], first))

(***************************************************************************)
(* Settlement of parseCSV's promise.                                       *)
(***************************************************************************)
Settled(i) == ing[i].promise.state \in {"resolved", "rejected"}

\* C30: every parseCSV call settles exactly once: when the read completes and
\* every call to the store returns, a pending promise is eventually resolved
\* or rejected, and a settled promise keeps its outcome.
C30_SettlesExactlyOnce ==
    /\ \A i \in Ingestions : (ing[i].promise.state = "pending") ~> Settled(i)
    /\ [][\A i \in Ingestions : Settled(i) => ing'[i].promise = ing[i].promise]_vars

\* two calls have settled: one resolved, the other rejected when its upsert
\* failed, after the timer had ended the wait for it
C30_Witness ==
    \E i, j \in Ingestions :
        /\ ing[i].promise.state = "resolved"
        /\ ing[j].promise.state = "rejected"
        /\ ing[j].timer = "fired"
        /\ RequestsOf(j, "loans") # <<>>
====
